---------------------------- MODULE Spec2Model ----------------------------
(***************************************************************************)
(* A model of the Chance.js 1.0.4 generator core (src/unnamed/part_000):   *)
(* the Mersenne Twister bit stream, the uniform sampling layer built on   *)
(* it and the composite generators (unique, shuffle, weighted).           *)
(*                                                                         *)
(* Numbers.  TLC integers are 32-bit signed, so a 32-bit unsigned word is  *)
(* kept as the pair <<hi, lo>> of its 16-bit halves, and a JavaScript      *)
(* Number, where the 32-bit draw enters the arithmetic, as an exact        *)
(* multiple of 2^-32 (sign and magnitude, the magnitude a little-endian    *)
(* sequence of 16-bit limbs) that is rounded to 53 significant bits after  *)
(* every operation, as IEEE-754 doubles are.                               *)
(***************************************************************************)
EXTENDS Integers, Sequences, FiniteSets, TLC

VARIABLES
    mts,      \* heap of MersenneTwister objects: id -> [mt, mti]
    chance,   \* the Chance instances: name -> [args, seed, mt] (mt an id of mts)
    script,   \* the fixed sequence of generator calls both instances replay
    outs,     \* per instance, what its calls returned or threw so far
    solo,     \* per instance, what an instance built alike returns when run alone
    samp,     \* a call of the sampling layer: its options, its draw and the result
    uq,       \* a call of unique: where it stands, its locals and what it yielded
    arrs,     \* heap of arrays: id -> the sequence of the array's elements
    shuf,       \* a call of shuffle: its argument (an id of arrs) and what it returned
    wt,       \* a call of weighted: its arguments, its draw and what it yielded
    call      \* a call of one of the other functions: its arguments and its outcome

mtVars == <<mts, chance, script, outs, solo>>

arrVars == <<arrs, shuf, wt>>

vars == <<mtVars, samp, uq, arrVars, call>>

\* the parts of the state a specification does not exercise stay as built here
IdleMT ==
    /\ mts = <<>>
    /\ chance = <<>>
    /\ script = <<>>
    /\ outs = <<>>
    /\ solo = <<>>

IdleUnique == uq = [pc |-> "idle"]

IdleShuffle == shuf = [pc |-> "idle"]

IdleWeighted == wt = [pc |-> "idle"]

IdleArrays == arrs = <<>> /\ IdleShuffle /\ IdleWeighted

IdleCall == call = [pc |-> "idle"]

\* A JavaScript value that may be undefined is a sequence: <<>> for undefined,
\* <<v>> for the value v.
Undefined == <<>>
Def(v) == <<v>>

-----------------------------------------------------------------------------
(* 32-bit words as <<hi, lo>>, and the bit operators of JavaScript on them *)

Half == 2^16

Bit(x, i) == (x \div (2^i)) % 2

XorNib == [a \in 0..15 |-> [b \in 0..15 |->
            ((Bit(a,0) + Bit(b,0)) % 2) + 2 * ((Bit(a,1) + Bit(b,1)) % 2)
          + 4 * ((Bit(a,2) + Bit(b,2)) % 2) + 8 * ((Bit(a,3) + Bit(b,3)) % 2)]]

AndNib == [a \in 0..15 |-> [b \in 0..15 |->
            (Bit(a,0) * Bit(b,0)) + 2 * (Bit(a,1) * Bit(b,1))
          + 4 * (Bit(a,2) * Bit(b,2)) + 8 * (Bit(a,3) * Bit(b,3))]]

Nib(x, i) == (x \div (16^i)) % 16

Xor16(a, b) == XorNib[Nib(a,0)][Nib(b,0)] + 16 * XorNib[Nib(a,1)][Nib(b,1)]
             + 256 * XorNib[Nib(a,2)][Nib(b,2)] + 4096 * XorNib[Nib(a,3)][Nib(b,3)]

And16(a, b) == AndNib[Nib(a,0)][Nib(b,0)] + 16 * AndNib[Nib(a,1)][Nib(b,1)]
             + 256 * AndNib[Nib(a,2)][Nib(b,2)] + 4096 * AndNib[Nib(a,3)][Nib(b,3)]

\* a ^ b
BitXor(a, b) == <<Xor16(a[1], b[1]), Xor16(a[2], b[2])>>

\* a & b
BitAnd(a, b) == <<And16(a[1], b[1]), And16(a[2], b[2])>>

\* a | b  (a + b - (a & b), half by half)
BitOr(a, b) == <<a[1] + b[1] - And16(a[1], b[1]), a[2] + b[2] - And16(a[2], b[2])>>

\* a >>> n, 0 <= n < 32
ShiftRightU(a, n) ==
    IF n = 0 THEN a
    ELSE IF n >= 16 THEN <<0, a[1] \div (2^(n - 16))>>
    ELSE <<a[1] \div (2^n), ((a[1] % (2^n)) * (2^(16 - n))) + (a[2] \div (2^n))>>

\* (a << n) >>> 0, 0 <= n < 32
ShiftLeft(a, n) ==
    IF n = 0 THEN a
    ELSE IF n >= 16 THEN <<(a[2] % (2^(32 - n))) * (2^(n - 16)), 0>>
    ELSE <<((a[1] % (2^(16 - n))) * (2^n)) + (a[2] \div (2^(16 - n))),
           (a[2] % (2^(16 - n))) * (2^n)>>

\* the 32-bit product of two 16-bit numbers
Mul16(x, y) ==
    LET t1 == (x \div 256) * y
        t0 == (x % 256) * y
        s  == ((t1 % 256) * 256) + t0
    IN  <<(t1 \div 256) + (s \div Half), s % Half>>

\* (x * c) >>> 0 for a 16-bit x and a word c
MulU32(x, c) ==
    LET p == Mul16(x, c[2])
    IN  <<(p[1] + Mul16(x, c[1])[2]) % Half, p[2]>>

\* (a + b) >>> 0
AddU32(a, b) ==
    LET lo == a[2] + b[2]
    IN  <<(a[1] + b[1] + (lo \div Half)) % Half, lo % Half>>

\* the word of a TLC integer 0 <= x < 2^31
WordOf(x) == <<x \div Half, x % Half>>

\* a word as one TLC integer (the word minus 2^31), as the state array holds it
Enc(w) == ((w[1] - 32768) * Half) + w[2]
Dec(e) == <<(e \div Half) + 32768, e % Half>>

-----------------------------------------------------------------------------
(* Naturals of any size: little-endian sequences of 16-bit limbs with no   *)
(* leading zero limb (<<>> is 0).                                          *)

RECURSIVE BNorm(_)
BNorm(a) == IF a = <<>> THEN a
            ELSE IF a[Len(a)] = 0 THEN BNorm(SubSeq(a, 1, Len(a) - 1))
            ELSE a

Limb(a, i) == IF i <= Len(a) THEN a[i] ELSE 0

MaxOf(x, y) == IF x >= y THEN x ELSE y

RECURSIVE BAddFrom(_, _, _, _)
BAddFrom(a, b, i, carry) ==
    IF i > MaxOf(Len(a), Len(b)) THEN (IF carry = 0 THEN <<>> ELSE <<carry>>)
    ELSE LET t == Limb(a, i) + Limb(b, i) + carry
         IN  <<t % Half>> \o BAddFrom(a, b, i + 1, t \div Half)

BAdd(a, b) == BAddFrom(a, b, 1, 0)

\* a - b for a >= b
RECURSIVE BSubFrom(_, _, _, _)
BSubFrom(a, b, i, borrow) ==
    IF i > Len(a) THEN <<>>
    ELSE LET t == Limb(a, i) - Limb(b, i) - borrow
         IN  <<(t + Half) % Half>> \o BSubFrom(a, b, i + 1, IF t < 0 THEN 1 ELSE 0)

BSub(a, b) == BNorm(BSubFrom(a, b, 1, 0))

\* -1, 0 or 1 as a < b, a = b or a > b, comparing from limb i down
RECURSIVE BCmpFrom(_, _, _)
BCmpFrom(a, b, i) ==
    IF i = 0 THEN 0
    ELSE IF a[i] < b[i] THEN -1
    ELSE IF a[i] > b[i] THEN 1
    ELSE BCmpFrom(a, b, i - 1)

BCmp(a, b) == IF Len(a) < Len(b) THEN -1
              ELSE IF Len(a) > Len(b) THEN 1
              ELSE BCmpFrom(a, b, Len(a))

\* a * x for a 16-bit x, from limb i with the carry of the limbs below
RECURSIVE BMulLimbFrom(_, _, _, _)
BMulLimbFrom(a, x, i, carry) ==
    IF i > Len(a) THEN (IF carry = 0 THEN <<>> ELSE <<carry>>)
    ELSE LET p  == Mul16(a[i], x)
             lo == p[2] + carry
         IN  <<lo % Half>> \o BMulLimbFrom(a, x, i + 1, p[1] + (lo \div Half))

Zeros(k) == [i \in 1..k |-> 0]

\* a * 65536^k
BShiftLimbs(a, k) == IF a = <<>> THEN a ELSE Zeros(k) \o a

RECURSIVE BMulFrom(_, _, _)
BMulFrom(a, b, i) ==
    IF i > Len(b) THEN <<>>
    ELSE BAdd(BShiftLimbs(BNorm(BMulLimbFrom(a, b[i], 1, 0)), i - 1),
              BMulFrom(a, b, i + 1))

BMul(a, b) == BNorm(BMulFrom(a, b, 1))

\* the number of bits of a 16-bit x (0 for 0)
RECURSIVE BitLen16(_)
BitLen16(x) == IF x = 0 THEN 0 ELSE 1 + BitLen16(x \div 2)

BBitLen(a) == IF a = <<>> THEN 0 ELSE 16 * (Len(a) - 1) + BitLen16(a[Len(a)])

\* a * 2^n
BShl(a, n) ==
    LET q == n \div 16
        r == n % 16
        w == [i \in 1..(Len(a) + 1) |->
                ((Limb(a, i) % (2^(16 - r))) * (2^r))
                + (IF i = 1 THEN 0 ELSE a[i - 1] \div (2^(16 - r)))]
    IN  BShiftLimbs(BNorm(w), q)

\* a \div 2^n
BShr(a, n) ==
    LET q == n \div 16
        r == n % 16
        d == IF q >= Len(a) THEN <<>> ELSE SubSeq(a, q + 1, Len(a))
        w == [i \in 1..Len(d) |->
                (d[i] \div (2^r)) + ((Limb(d, i + 1) % (2^r)) * (2^(16 - r)))]
    IN  BNorm(w)

BOdd(a) == a # <<>> /\ a[1] % 2 = 1

BOne == <<1>>

-----------------------------------------------------------------------------
(* JavaScript Numbers: [s |-> 1 or -1, m |-> magnitude], the value being   *)
(* s * m / 2^32.  Every operation rounds its exact result to 53            *)
(* significant bits, ties to even.                                         *)

\* sh is the number of bits dropped, q the bits kept, c the comparison of the
\* dropped bits with one half of the last place kept
RoundD(m) ==
    IF BBitLen(m) <= 53 THEN m
    ELSE LET Up(q, c) == c = 1 \/ (c = 0 /\ BOdd(q))
             Rounded(sh, q) ==
                 BShl(IF Up(q, BCmp(BSub(m, BShl(q, sh)), BShl(BOne, sh - 1)))
                      THEN BAdd(q, BOne) ELSE q, sh)
             Kept(sh) == Rounded(sh, BShr(m, sh))
         IN  Kept(BBitLen(m) - 53)

Num(s, m) == [s |-> IF m = <<>> THEN 1 ELSE s, m |-> m]

\* the Number of a (32-bit) integer i of TLC
DInt(i) ==
    LET a == IF i < 0 THEN -i ELSE i
    IN  Num(IF i < 0 THEN -1 ELSE 1, BShiftLimbs(BNorm(<<a % Half, a \div Half>>), 2))

\* the Number k / 2^32 of a word k
DFraction(k) == Num(1, BNorm(<<k[2], k[1]>>))

DNeg(x) == Num(-x.s, x.m)

\* x + y
DAdd(x, y) ==
    IF x.s = y.s THEN Num(x.s, RoundD(BAdd(x.m, y.m)))
    ELSE IF BCmp(x.m, y.m) >= 0 THEN Num(x.s, RoundD(BSub(x.m, y.m)))
    ELSE Num(y.s, RoundD(BSub(y.m, x.m)))

\* x - y
DSub(x, y) == DAdd(x, DNeg(y))

\* x * y; one of the two is an integer wherever the model multiplies, so the
\* rounded product is again a multiple of 2^-32
DMul(x, y) == Num(x.s * y.s, BShr(RoundD(BMul(x.m, y.m)), 32))

\* -1, 0, 1 as x < y, x = y, x > y
DCmp(x, y) ==
    IF x.s # y.s THEN (IF x.s < y.s THEN -1 ELSE 1)
    ELSE x.s * BCmp(x.m, y.m)

DLt(x, y) == DCmp(x, y) < 0
DLe(x, y) == DCmp(x, y) <= 0
DGt(x, y) == DCmp(x, y) > 0

\* Math.floor(x)
DFloor(x) ==
    LET q     == BShr(x.m, 32)
        whole == BShl(q, 32)
    IN  IF x.s = 1 \/ whole = x.m THEN Num(x.s, whole)
        ELSE Num(-1, BShl(BAdd(q, BOne), 32))

DIsInteger(x) == DFloor(x) = x

\* the TLC integer of an integer Number x with |x| < 2^31
DToInt(x) == x.s * (Limb(x.m, 3) + Half * Limb(x.m, 4))

DZero == DInt(0)
DOne == DInt(1)

\* the Number of an unsigned word, and of the same 32 bits read as an int32
DWord(w) == Num(1, BShiftLimbs(BNorm(<<w[2], w[1]>>), 2))
DInt32(w) ==
    IF w[1] < 32768 THEN DWord(w)
    ELSE DNeg(DWord(AddU32(<<65535 - w[1], 65535 - w[2]>>, <<0, 1>>)))

\* x >>> 0 (ToUint32): the integer part of x modulo 2^32
DToUint32(x) ==
    LET q == BShr(x.m, 32)
        w == <<Limb(q, 2), Limb(q, 1)>>
    IN  IF x.s = 1 THEN w ELSE AddU32(<<65535 - w[1], 65535 - w[2]>>, <<0, 1>>)

\* x << n (the int32 result)
DShl32(x, n) == DInt32(ShiftLeft(DToUint32(x), n))

-----------------------------------------------------------------------------
(* MersenneTwister (part_000 4551-4664).  The JavaScript array mt[0..N-1] *)
(* is the sequence mt[1..N] here, each word held as Enc of it.             *)

N == 624
M == 397
MATRIX_A == <<39176, 45279>>        \* 0x9908b0df
UPPER_MASK == <<32768, 0>>          \* 0x80000000
LOWER_MASK == <<32767, 65535>>      \* 0x7fffffff
Multiplier == <<27655, 35173>>      \* 1812433253
TemperB == <<40236, 22144>>         \* 0x9d2c5680
TemperC == <<61382, 0>>             \* 0xefc60000

\* one turn of init_genrand's loop: mt[mti] from mt[mti - 1]
init_genrand_step(prev, mti) ==
    LET Step(s) == AddU32(AddU32(ShiftLeft(MulU32(s[1], Multiplier), 16),
                                 MulU32(s[2], Multiplier)),
                          WordOf(mti))
    IN  Step(BitXor(prev, ShiftRightU(prev, 30)))

\* the loop of init_genrand over mti in [from, to).  The turns run in the loop's
\* order; the range is split in halves and the first half evaluated before the
\* second is entered (the test on Len forces it), which keeps TLC's evaluation
\* shallow
RECURSIVE init_genrand_loop(_, _, _)
init_genrand_loop(mt, from, to) ==
    IF to <= from THEN mt
    ELSE IF to = from + 1 THEN Append(mt, Enc(init_genrand_step(Dec(mt[from]), from)))
    ELSE LET mid  == (from + to) \div 2
             left == init_genrand_loop(mt, from, mid)
         IN  IF Len(left) > 0 THEN init_genrand_loop(left, mid, to) ELSE left

\* init_genrand(s) for a Number s: the state it leaves (mt[0] = s >>> 0)
init_genrand(s) == [mt |-> init_genrand_loop(<<Enc(DToUint32(s))>>, 1, N), mti |-> N]

\* the constructor that ignores the seed it is given
MersenneTwister_unseeded(seed, entropy) == init_genrand(entropy)

\* new MersenneTwister(seed); entropy is the Number Math.floor(Math.random() *
\* Math.pow(10,13)) that seeds it when seed is undefined
MersenneTwister(seed, entropy) ==
    init_genrand(IF seed = Undefined THEN entropy ELSE seed[1])

mag01(y) == IF y[2] % 2 = 1 THEN MATRIX_A ELSE <<0, 0>>

\* mt[kk] = mt[kk + off] ^ (y >>> 1) ^ mag01[y & 1], y from mt[kk] and mt[next]
twist_word(mt, kk, next, from) ==
    LET Word(y) == Enc(BitXor(BitXor(Dec(mt[from + 1]), ShiftRightU(y, 1)), mag01(y)))
    IN  [mt EXCEPT ![kk + 1] =
            Word(BitOr(BitAnd(Dec(mt[kk + 1]), UPPER_MASK),
                       BitAnd(Dec(mt[next + 1]), LOWER_MASK)))]

\* one turn kk of the three loops that regenerate the N words
twist_step(mt, kk) ==
    IF kk < N - M THEN twist_word(mt, kk, kk + 1, kk + M)
    ELSE IF kk < N - 1 THEN twist_word(mt, kk, kk + 1, kk + (M - N))
    ELSE twist_word(mt, N - 1, 0, M - 1)

\* the turns kk in [from, to), in order (split in halves as above)
RECURSIVE twist_loop(_, _, _)
twist_loop(mt, from, to) ==
    IF to <= from THEN mt
    ELSE IF to = from + 1 THEN twist_step(mt, from)
    ELSE LET mid  == (from + to) \div 2
             left == twist_loop(mt, from, mid)
         IN  IF Len(left) > 0 THEN twist_loop(left, mid, to) ELSE left

\* the four tempering assignments to y, in the code's order
tempering(y0) ==
    LET T1(y) == BitXor(y, ShiftRightU(y, 11))
        T2(y) == BitXor(y, BitAnd(ShiftLeft(y, 7), TemperB))
        T3(y) == BitXor(y, BitAnd(ShiftLeft(y, 15), TemperC))
        T4(y) == BitXor(y, ShiftRightU(y, 18))
    IN  T4(T3(T2(T1(y0))))

\* genrand_int32 that generates the N words one draw early
genrand_int32_early(o) ==
    LET Take(g) == [obj |-> [mt |-> g.mt, mti |-> g.mti + 1],
                    y |-> tempering(Dec(g.mt[g.mti + 1]))]
    IN  Take(IF o.mti >= N - 1 THEN [mt |-> twist_loop(o.mt, 0, N), mti |-> 0] ELSE o)

\* genrand_int32 on the object o: the object after the call and the word returned
genrand_int32(o) ==
    LET Take(g) == [obj |-> [mt |-> g.mt, mti |-> g.mti + 1],
                    y |-> tempering(Dec(g.mt[g.mti + 1]))]
    IN  Take(IF o.mti >= N THEN [mt |-> twist_loop(o.mt, 0, N), mti |-> 0] ELSE o)

\* MersenneTwister.prototype.random: genrand_int32() * (1.0 / 4294967296.0)
mt_random(o) ==
    LET Scaled(g) == [obj |-> g.obj, r |-> DFraction(g.y)]
    IN  Scaled(genrand_int32(o))

-----------------------------------------------------------------------------
(* The helpers and the uniform sampling layer (part_000 8-10, 68-86,       *)
(* 116-133, 232-256).  An options object is a record whose absent keys     *)
(* hold Undefined; a call yields what it returned or threw and the options *)
(* object as the call left it (initOptions writes the defaults into the   *)
(* caller's object).  r is the Number this.random() returned.               *)

MAX_INT == Num(1, BShl(BOne, 53 + 32))      \* 9007199254740992
MIN_INT == DNeg(MAX_INT)

initOptions(options, defaults) ==
    [i \in DOMAIN options |->
        IF i \in DOMAIN defaults /\ options[i] = Undefined
        THEN Def(defaults[i]) ELSE options[i]]

Return(v, options) == [thrown |-> "none", value |-> Def(v), options |-> options]
Throw(kind, options) == [thrown |-> kind, value |-> Undefined, options |-> options]

\* testRange(test, errorMessage) followed by the rest of the function
testRange(test, options, rest) == IF test THEN Throw("RangeError", options) ELSE rest

\* bool with the comparison made inclusive
bool_inclusive(options, r) ==
    LET o == initOptions(options, [likelihood |-> DInt(50)])
    IN  testRange(DLt(o.likelihood[1], DZero) \/ DGt(o.likelihood[1], DInt(100)), o,
                  Return(DLe(DMul(r, DInt(100)), o.likelihood[1]), o))

bool(options, r) ==
    LET o == initOptions(options, [likelihood |-> DInt(50)])
    IN  testRange(DLt(o.likelihood[1], DZero) \/ DGt(o.likelihood[1], DInt(100)), o,
                  Return(DLt(DMul(r, DInt(100)), o.likelihood[1]), o))

integer(options, r) ==
    LET o == initOptions(options, [min |-> MIN_INT, max |-> MAX_INT])
    IN  testRange(DGt(o.min[1], o.max[1]), o,
                  Return(DFloor(DAdd(DMul(r,
                                     DAdd(DSub(o.max[1], o.min[1]), DOne)),
                                o.min[1])), o))

\* natural without its range test
natural_unchecked(options, r) ==
    integer(initOptions(options, [min |-> DZero, max |-> MAX_INT]), r)

natural(options, r) ==
    LET o == initOptions(options, [min |-> DZero, max |-> MAX_INT])
    IN  testRange(DLt(o.min[1], DZero), o, integer(o, r))

-----------------------------------------------------------------------------
(* The Chance constructor (part_000 20-63).  An argument is a record       *)
(* [t, num, str]: the Number num when t = "num", the string str (its       *)
(* character codes) when t = "str".                                        *)

NumArg(i) == [t |-> "num", num |-> DInt(i), str |-> <<>>]
StrArg(codes) == [t |-> "str", num |-> DZero, str |-> codes]

\* lines 43-46: the hash of the whole string, from character k on
RECURSIVE string_hash(_, _, _)
string_hash(str, k, hash) ==
    IF k > Len(str) THEN hash
    ELSE string_hash(str, k + 1,
             DSub(DAdd(DAdd(DInt(str[k]), DShl32(hash, 6)), DShl32(hash, 16)), hash))

\* lines 41-48: the loop over j, which adds the string's hash once per character
RECURSIVE seedling_loop(_, _, _)
seedling_loop(str, j, seedling) ==
    IF j > Len(str) THEN seedling
    ELSE seedling_loop(str, j + 1, DAdd(seedling, string_hash(str, 1, DZero)))

\* lines 39-51
seedling_of(arg) ==
    IF arg.t = "str" THEN seedling_loop(arg.str, 1, DZero) ELSE arg.num

\* lines 38-53: this.seed += (arguments.length - i) * seedling, i = 0 .. length - 1
RECURSIVE seed_loop(_, _, _)
seed_loop(args, i, seed) ==
    IF i >= Len(args) THEN seed
    ELSE seed_loop(args, i + 1,
                   DAdd(seed, DMul(DInt(Len(args) - i), seedling_of(args[i + 1]))))

\* the twister every instance shares (an allocation that hands out one object)
mersenne_twister_shared(h, seed, entropy) ==
    IF Len(h) > 0 THEN [h |-> h, ref |-> 1]
    ELSE [h |-> <<MersenneTwister(seed, entropy)>>, ref |-> 1]

\* Chance.prototype.mersenne_twister: a new MersenneTwister on the heap h
mersenne_twister(h, seed, entropy) ==
    [h |-> Append(h, MersenneTwister(seed, entropy)), ref |-> Len(h) + 1]

\* Chance(...args) called with new, or without (lines 21-23: then only the first
\* argument is passed on); the heap after it and the instance it built
Chance(h, args, withNew, entropy) ==
    LET Built(seed, tw) ==
            [h |-> tw.h, self |-> [args |-> args, seed |-> seed, mt |-> tw.ref]]
        Seeded(seed) == Built(seed, mersenne_twister(h, seed, entropy))
        Given(given) ==
            Seeded(IF Len(given) > 0 THEN Def(seed_loop(given, 0, DZero)) ELSE Undefined)
    IN  Given(IF withNew \/ args = <<>> THEN args ELSE <<args[1]>>)

\* this.random(): this.mt.random(this.seed) on the instance's twister
random(h, self) ==
    LET Drawn(g) == [h |-> [h EXCEPT ![self.mt] = g.obj], r |-> g.r]
    IN  Drawn(mt_random(h[self.mt]))

-----------------------------------------------------------------------------
(* Two instances replaying one script of calls.                            *)

Names == {"A", "B"}

NoOptions == [min |-> Undefined, max |-> Undefined, likelihood |-> Undefined]

\* a call of the sampling layer: the function (none before the call), the
\* options, the word k whose Number k / 2^32 the draw is, and what came of it
Sampled(fn, options, k, res) == [fn |-> fn, options |-> options, k |-> k, res |-> res]

IdleSampling == samp = Sampled("none", NoOptions, <<0, 0>>, <<>>)

MinMax(lo, hi) == [NoOptions EXCEPT !.min = Def(DInt(lo)), !.max = Def(DInt(hi))]

CallList ==
    << [fn |-> "random",  options |-> NoOptions],
       [fn |-> "integer", options |-> MinMax(-3, 3)],
       [fn |-> "bool",    options |-> [NoOptions EXCEPT !.likelihood = Def(DInt(30))]],
       [fn |-> "natural", options |-> MinMax(1, 10)],
       [fn |-> "integer", options |-> MinMax(2, 1)] >>

\* the longest script replayed
MaxCalls == 3

\* the scripts: MaxCalls consecutive calls of CallList
Script(start) == [i \in 1..MaxCalls |-> CallList[start + i - 1]]

Starts == 1..(Len(CallList) - MaxCalls + 1)

\* how the instances are built: the arguments, with or without new, and the
\* Number Math.random() would seed the twister with
Entropy1 == DInt(5489)
Entropy2 == DInt(19650218)

Constructions ==
    { [args |-> <<>>, withNew |-> TRUE, entropy |-> Entropy1],
      [args |-> <<NumArg(42)>>, withNew |-> TRUE, entropy |-> Entropy1],
      [args |-> <<NumArg(42), NumArg(7)>>, withNew |-> FALSE, entropy |-> Entropy2],
      [args |-> <<StrArg(<<97, 98>>), NumArg(-1)>>, withNew |-> TRUE,
       entropy |-> Entropy2] }

\* the call c on an instance whose draw would be r: what it returns or throws
Invoke(c, r) ==
    CASE c.fn = "random"  -> Return(r, c.options)
      [] c.fn = "bool"    -> bool(c.options, r)
      [] c.fn = "integer" -> integer(c.options, r)
      [] c.fn = "natural" -> natural(c.options, r)

Outcome(res) == [thrown |-> res.thrown, value |-> res.value]

\* one call of the script on the instance self: the heap after it and the outcome
\* (the draw is taken only by a call that gets past its range tests)
Perform(h, self, c) ==
    LET Done(g, res) ==
            [h |-> IF res.thrown = "none" THEN g.h ELSE h, out |-> Outcome(res)]
        Drawn(g) == Done(g, Invoke(c, g.r))
    IN  Drawn(random(h, self))

\* the outcomes of the calls sc[i..] on an instance that nothing else touches
RECURSIVE RunAlone(_, _, _, _)
RunAlone(h, self, sc, i) ==
    IF i > Len(sc) THEN <<>>
    ELSE LET Rest(p) == <<p.out>> \o RunAlone(p.h, self, sc, i + 1)
         IN  Rest(Perform(h, self, sc[i]))

AloneOf(k, sc) ==
    LET Run(c) == RunAlone(c.h, c.self, sc, 1)
    IN  Run(Chance(<<>>, k.args, k.withNew, k.entropy))

InitMT ==
    \E ka \in Constructions, kb \in Constructions, start \in Starts :
      \E a \in {Chance(<<>>, ka.args, ka.withNew, ka.entropy)} :
        \E b \in {Chance(a.h, kb.args, kb.withNew, kb.entropy)} :
            /\ mts = b.h
            /\ chance = [A |-> a.self, B |-> b.self]
            /\ script = Script(start)
            /\ outs = [n \in Names |-> <<>>]
            /\ solo = [A |-> AloneOf(ka, Script(start)), B |-> AloneOf(kb, Script(start))]
            /\ IdleSampling
            /\ IdleUnique
            /\ IdleArrays
            /\ IdleCall

\* the next call of the script on instance n
Call(n) ==
    /\ Len(outs[n]) < Len(script)
    /\ \E p \in {Perform(mts, chance[n], script[Len(outs[n]) + 1])} :
           /\ mts' = p.h
           /\ outs' = [outs EXCEPT ![n] = Append(@, p.out)]
    /\ UNCHANGED <<chance, script, solo, samp, uq, arrVars, call>>

CallA == Call("A")
CallB == Call("B")

NextMT == CallA \/ CallB

SpecMT == InitMT /\ [][NextMT]_vars

IsPrefix(s, t) == Len(s) <= Len(t) /\ SubSeq(t, 1, Len(s)) = s

MinOf(x, y) == IF x <= y THEN x ELSE y

C2_NoSharedState ==
    [][\A n \in Names :
          /\ IsPrefix(outs'[n], solo[n])
          /\ outs'[n] = outs[n] => mts'[chance[n].mt] = mts[chance[n].mt]]_vars

\* the two instances hold the same seed, A has drawn twice and B, interleaved
\* after it, once
C2_Witness ==
    /\ chance["A"].seed = chance["B"].seed
    /\ chance["A"].mt # chance["B"].mt
    /\ Len(outs["A"]) >= 2
    /\ Len(outs["B"]) >= 1
    /\ outs["A"][1].thrown = "none"
    /\ outs["A"][2].thrown = "none"
    /\ outs["B"][1].thrown = "none"
    /\ mts[chance["A"].mt].mti # mts[chance["B"].mt].mti

-----------------------------------------------------------------------------
(* The sampling layer on its own: one call of bool, integer or natural,    *)
(* with options from small sets and the draw this.random() hands it, the   *)
(* Number k / 2^32 of a word k the twister can return.                     *)

\* the small ranges tried have min and max in -MaxRange .. MaxRange
MaxRange == 3

\* ranges at the precision limit of Numbers
BigRanges == {<<2097152, 2097152>>, <<-4194304, -4194304>>}

OptValues == {Undefined} \cup {Def(DInt(i)) : i \in -MaxRange..MaxRange}

RangeOptions ==
    {[NoOptions EXCEPT !.min = lo, !.max = hi] : lo \in OptValues, hi \in OptValues}
        \cup {MinMax(b[1], b[2]) : b \in BigRanges}

Likelihoods == {-1, 0, 1, 30, 50, 99, 100, 101}

BoolOptions ==
    {NoOptions} \cup {[NoOptions EXCEPT !.likelihood = Def(DInt(l))] : l \in Likelihoods}

\* 0, 2^-32, the words on either side of 0.01 and of 0.3, 0.5 and 1 - 2^-32
DrawWords ==
    { <<0, 0>>, <<0, 1>>, <<655, 23592>>, <<655, 23593>>, <<19660, 52428>>,
      <<19660, 52429>>, <<32768, 0>>, <<65535, 65535>> }

CallBool ==
    /\ samp.fn = "none"
    /\ samp' = Sampled("bool", samp.options, samp.k,
                       bool(samp.options, DFraction(samp.k)))
    /\ UNCHANGED <<mtVars, uq, arrVars, call>>

CallInteger ==
    /\ samp.fn = "none"
    /\ samp' = Sampled("integer", samp.options, samp.k,
                       integer(samp.options, DFraction(samp.k)))
    /\ UNCHANGED <<mtVars, uq, arrVars, call>>

CallNatural ==
    /\ samp.fn = "none"
    /\ samp' = Sampled("natural", samp.options, samp.k,
                       natural(samp.options, DFraction(samp.k)))
    /\ UNCHANGED <<mtVars, uq, arrVars, call>>

\* the options object and the draw of the call to come
InitSampling ==
    /\ IdleMT
    /\ IdleUnique
    /\ IdleArrays
    /\ IdleCall
    /\ \E o \in BoolOptions \cup RangeOptions, k \in DrawWords :
           samp = Sampled("none", o, k, <<>>)

NextSampling == CallBool \/ CallInteger \/ CallNatural

SpecSampling == InitSampling /\ [][NextSampling]_vars

\* an option as the caller gave it, or the default d when it was left out
Given(v, d) == IF v = Undefined THEN d ELSE v[1]

\* C3: an integer call with min <= max returns an integer r, min <= r <= max.
C3_RangeContainment ==
    samp.fn = "integer" =>
        LET lo == Given(samp.options.min, MIN_INT)
            hi == Given(samp.options.max, MAX_INT)
        IN  DLe(lo, hi) =>
                /\ samp.res.thrown = "none"
                /\ DIsInteger(samp.res.value[1])
                /\ DLe(lo, samp.res.value[1])
                /\ DLe(samp.res.value[1], hi)

\* C4 as stated: natural raises a range error when the min given is negative
\* and otherwise does what integer does with the very same options.
C4_NaturalAsIntegerSameOptions ==
    samp.fn = "natural" =>
        IF samp.options.min # Undefined /\ DLt(samp.options.min[1], DZero)
        THEN samp.res.thrown = "RangeError" /\ samp.res.value = Undefined
        ELSE Outcome(samp.res) = Outcome(integer(samp.options, DFraction(samp.k)))

\* C4, amended: integer raises a range error, returning nothing, exactly when
\* min > max (MIN_INT and MAX_INT standing for an omitted min and max); natural
\* raises one, returning nothing, when min < 0, and otherwise does what integer
\* does with the options in which an omitted min is 0 and an omitted max MAX_INT.
C4_RangeErrors ==
    /\ samp.fn = "integer" =>
           IF DGt(Given(samp.options.min, MIN_INT), Given(samp.options.max, MAX_INT))
           THEN samp.res.thrown = "RangeError" /\ samp.res.value = Undefined
           ELSE samp.res.thrown = "none" /\ samp.res.value # Undefined
    /\ samp.fn = "natural" =>
           IF DLt(Given(samp.options.min, DZero), DZero)
           THEN samp.res.thrown = "RangeError" /\ samp.res.value = Undefined
           ELSE Outcome(samp.res) =
                    Outcome(integer([samp.options EXCEPT
                                        !.min = Def(Given(@, DZero)),
                                        !.max = Def(Given(@, MAX_INT))],
                                    DFraction(samp.k)))

\* natural was called with a negative min and a larger max, and threw
C4_Witness ==
    /\ samp.fn = "natural"
    /\ samp.options.min = Def(DInt(-1))
    /\ samp.options.max = Def(DInt(2))
    /\ samp.res.thrown = "RangeError"

\* floor(draw * 100) for the draw k / 2^32, in integers
Percent(k) == ((k[1] * 100) + ((k[2] * 100) \div Half)) \div Half

\* C5: bool raises a range error when likelihood < 0 or likelihood > 100 and
\* otherwise returns true exactly when draw * 100 < likelihood (50 when omitted),
\* so never with likelihood 0 and always with likelihood 100.
C5_BoolLikelihood ==
    samp.fn = "bool" =>
        LET l == DToInt(Given(samp.options.likelihood, DInt(50)))
        IN  IF l < 0 \/ l > 100
            THEN samp.res.thrown = "RangeError" /\ samp.res.value = Undefined
            ELSE /\ samp.res.thrown = "none"
                 /\ samp.res.value = Def(Percent(samp.k) < l)
                 /\ l = 0 => samp.res.value = Def(FALSE)
                 /\ l = 100 => samp.res.value = Def(TRUE)

\* bool was called with the likelihood left out and the draw 0.5, and said no
C5_Witness ==
    /\ samp.fn = "bool"
    /\ samp.options.likelihood = Undefined
    /\ samp.k = <<32768, 0>>
    /\ samp.res.value = Def(FALSE)

-----------------------------------------------------------------------------
(* unique (part_000 300-328).  A call is followed step by step: entering   *)
(* the function, then one step per turn of its while loop, whose input is  *)
(* what fn returned in that turn.                                          *)

\* num ranges over 0 .. MaxNum
MaxNum == 2

\* what fn may return
Values == {1, 2, 3}

\* the options given: none, an object without a comparator, and one whose
\* comparator calls two numbers duplicates when they have the same parity
UniqueOptions ==
    {Undefined, Def([comparator |-> Undefined]), Def([comparator |-> Def("parity")])}

\* a comparator that finds nothing in the array
comparator_blind(options, arr, val) == FALSE

\* lines 306-310: the comparator in use applied to (arr, val); the default one is
\* arr.indexOf(val) !== -1
comparator(options, arr, val) ==
    IF options # Undefined /\ options[1].comparator # Undefined
    THEN \E i \in 1..Len(arr) : arr[i] % 2 = val % 2
    ELSE \E i \in 1..Len(arr) : arr[i] = val

\* line 312: MAX_DUPLICATES = num * 50
DuplicateFactor == 50
MAX_DUPLICATES(num) == num * DuplicateFactor

\* line 314 and 327: the test of the while loop; the call returns arr when it fails
unique_while(u) ==
    [u EXCEPT !.pc = IF Len(u.arr) < u.num THEN "loop" ELSE "returned"]

\* lines 301-314: the call up to the first test of the loop.  run counts the
\* duplicates fn has returned in a row, rejected tells that there was one
unique_enter(fnIsFunction, num, options) ==
    LET u == [pc |-> "loop", fnIsFunction |-> fnIsFunction, num |-> num,
              options |-> options, arr |-> <<>>, count |-> 0, run |-> 0,
              rejected |-> FALSE]
    IN  IF fnIsFunction THEN unique_while(u) ELSE [u EXCEPT !.pc = "thrown"]

\* lines 315-326: one turn of the loop in which fn returned result
unique_turn(u, result) ==
    LET dup   == comparator(u.options, u.arr, result)
        count == (IF dup THEN u.count ELSE 0) + 1
        v     == [u EXCEPT !.arr = IF dup THEN @ ELSE Append(@, result),
                           !.count = count,
                           !.run = IF dup THEN @ + 1 ELSE 0,
                           !.rejected = @ \/ dup]
    IN  IF count > MAX_DUPLICATES(u.num) THEN [v EXCEPT !.pc = "thrown"]
        ELSE unique_while(v)

UniqueCall ==
    /\ uq.pc = "idle"
    /\ \E f \in BOOLEAN, num \in 0..MaxNum, o \in UniqueOptions :
           uq' = unique_enter(f, num, o)
    /\ UNCHANGED <<mtVars, samp, arrVars, call>>

UniqueTurn ==
    /\ uq.pc = "loop"
    /\ \E result \in Values : uq' = unique_turn(uq, result)
    /\ UNCHANGED <<mtVars, samp, arrVars, call>>

InitUnique == IdleMT /\ IdleSampling /\ IdleUnique /\ IdleArrays /\ IdleCall

NextUnique == UniqueCall \/ UniqueTurn

SpecUnique == InitUnique /\ [][NextUnique]_vars

\* two values the comparator in use calls equal
EqualUnder(options, a, b) ==
    IF options = Def([comparator |-> Def("parity")]) THEN a % 2 = b % 2 ELSE a = b

\* C6: whenever unique(fn, k) returns, the result has exactly k elements and no
\* two of them are equal under the comparator in use.
C6_Uniqueness ==
    uq.pc = "returned" =>
        /\ Len(uq.arr) = uq.num
        /\ \A i \in 1..Len(uq.arr) : \A j \in 1..Len(uq.arr) :
               i # j => ~EqualUnder(uq.options, uq.arr[i], uq.arr[j])

\* a call for two values returned them after fn had repeated itself, under the
\* parity comparator
C6_Witness ==
    /\ uq.pc = "returned"
    /\ uq.num = 2
    /\ uq.rejected
    /\ uq.options = Def([comparator |-> Def("parity")])
    /\ Len(uq.arr) = 2

\* C7: unique raises the range error about num exactly when fn has returned
\* more than num * 50 duplicates in a row; num * 50 or fewer never raise.
C7_RaisesBeyondLimitOnly ==
    (uq.pc # "idle" /\ uq.fnIsFunction) =>
        (uq.pc = "thrown" <=> uq.run > uq.num * DuplicateFactor)

-----------------------------------------------------------------------------
(* Arrays live on the heap arrs, so that a copy and the array it was made  *)
(* from are two objects; index i of JavaScript is position i + 1 here.     *)

\* arr.slice(0) in place of which the array itself is handed back
slice_alias(h, ref) == [h |-> h, ref |-> ref]

\* arr.slice(0): a new array with the elements of h[ref]
slice(h, ref) == [h |-> Append(h, h[ref]), ref |-> Len(h) + 1]

\* []: a new empty array
new_array(h) == [h |-> Append(h, <<>>), ref |-> Len(h) + 1]

\* a splice that removes nothing
splice_none(h, ref, idx) == h

\* h[ref].splice(idx, 1) for idx >= 0: the heap after it
splice(h, ref, idx) ==
    [h EXCEPT ![ref] = IF idx < Len(@)
                       THEN SubSeq(@, 1, idx) \o SubSeq(@, idx + 2, Len(@))
                       ELSE @]

\* the arrays have at most MaxLen elements
MaxLen == 3

\* the sequences over S of length n, and of length at most n
RECURSIVE SeqsOfLen(_, _)
SeqsOfLen(S, n) ==
    IF n = 0 THEN {<<>>}
    ELSE {Append(q, x) : q \in SeqsOfLen(S, n - 1), x \in S}

SeqsUpTo(S, n) == UNION {SeqsOfLen(S, k) : k \in 0..n}

-----------------------------------------------------------------------------
(* shuffle (part_000 407-423)                                              *)

\* the draws tried on arrays: 0, just above 1/3, 1/2 and 1 - 2^-32
ArrayDraws == {<<0, 0>>, <<21846, 0>>, <<32768, 0>>, <<65535, 65535>>}

\* line 415: this.natural({max: old_array.length - 1}) on the draw of word k
shuffle_pick(len, k) ==
    DToInt(natural([NoOptions EXCEPT !.max = Def(DInt(len - 1))], DFraction(k)).value[1])

\* lines 413-420: the turns i .. length - 1 of the loop, draws[i + 1] the word
\* drawn in turn i; the heap after them
RECURSIVE shuffle_loop(_, _, _, _, _, _)
shuffle_loop(h, old_array, new_array_ref, i, length, draws) ==
    IF i >= length THEN h
    ELSE LET Turn(j) ==
                 shuffle_loop(
                     splice([h EXCEPT ![new_array_ref] = Append(@, h[old_array][j + 1])],
                            old_array, j),
                     old_array, new_array_ref, i + 1, length, draws)
         IN  Turn(shuffle_pick(Len(h[old_array]), draws[i + 1]))

\* shuffle(arr) on the heap h: the heap after it and the array returned
shuffle(h, arr, draws) ==
    LET Filled(s, n) ==
            [h |-> shuffle_loop(n.h, s.ref, n.ref, 0, Len(n.h[s.ref]), draws),
             ref |-> n.ref]
        Copied(s) == Filled(s, new_array(s.h))
    IN  Copied(slice(h, arr))

Shuffle ==
    /\ shuf.pc = "called"
    /\ \E draws \in [1..Len(arrs[shuf.arr]) -> ArrayDraws] :
         \E r \in {shuffle(arrs, shuf.arr, draws)} :
           /\ arrs' = r.h
           /\ shuf' = [shuf EXCEPT !.pc = "returned", !.result = r.ref]
    /\ UNCHANGED <<mtVars, samp, uq, wt, call>>

\* the array shuffle is about to be called with; orig keeps its elements
InitShuffle ==
    /\ IdleMT /\ IdleSampling /\ IdleUnique /\ IdleWeighted /\ IdleCall
    /\ \E a \in SeqsUpTo(Values, MaxLen) :
           /\ arrs = <<a>>
           /\ shuf = [pc |-> "called", arr |-> 1, orig |-> a, result |-> 0]

NextShuffle == Shuffle

SpecShuffle == InitShuffle /\ [][NextShuffle]_vars

\* how often v occurs in the sequence a
Occurrences(a, v) == Cardinality({i \in 1..Len(a) : a[i] = v})

\* C8: shuffle(arr) returns a new array with the length and the multiset of
\* elements of arr, and arr is as it was, for every array, the empty one too.
C8_ShufflePermutes ==
    shuf.pc = "returned" =>
        /\ shuf.result # shuf.arr
        /\ arrs[shuf.arr] = shuf.orig
        /\ Len(arrs[shuf.result]) = Len(shuf.orig)
        /\ \A v \in Values : Occurrences(arrs[shuf.result], v) = Occurrences(shuf.orig, v)

\* an array with a repeated element came back in another order
C8_Witness ==
    /\ shuf.pc = "returned"
    /\ shuf.orig = <<1, 2, 2>>
    /\ arrs[shuf.result] = <<2, 1, 2>>
    /\ arrs[shuf.arr] = <<1, 2, 2>>

-----------------------------------------------------------------------------
(* weighted (part_000 426-477).  The weights are Numbers; chosenIdx is an  *)
(* index of JavaScript (from 0), Undefined while nothing is chosen.        *)

WeightValues == {DInt(-1), DZero, DInt(1), DInt(2)}

TrimValues == {Undefined, Def(FALSE), Def(TRUE)}

\* lines 432-439: sum of the weights above 0, from index weightIndex on
RECURSIVE weighted_sum(_, _, _)
weighted_sum(weights, weightIndex, sum) ==
    IF weightIndex >= Len(weights) THEN sum
    ELSE weighted_sum(weights, weightIndex + 1,
                      IF DGt(weights[weightIndex + 1], DZero)
                      THEN DAdd(sum, weights[weightIndex + 1]) ELSE sum)

\* the scan that stops at the first index whose running total reaches selected,
\* whatever its weight
RECURSIVE weighted_scan_any(_, _, _, _, _)
weighted_scan_any(weights, selected, weightIndex, total, lastGoodIdx) ==
    IF weightIndex >= Len(weights) THEN Undefined
    ELSE IF DLe(selected, DAdd(total, weights[weightIndex + 1])) THEN Def(weightIndex)
    ELSE IF weightIndex = Len(weights) - 1
         THEN Def(IF DGt(weights[weightIndex + 1], DZero) THEN weightIndex ELSE lastGoodIdx)
    ELSE weighted_scan_any(weights, selected, weightIndex + 1,
                           DAdd(total, weights[weightIndex + 1]),
                           IF DGt(weights[weightIndex + 1], DZero)
                           THEN weightIndex ELSE lastGoodIdx)

\* lines 449-467: the scan for chosenIdx from index weightIndex on
RECURSIVE weighted_scan(_, _, _, _, _)
weighted_scan(weights, selected, weightIndex, total, lastGoodIdx) ==
    IF weightIndex >= Len(weights) THEN Undefined
    ELSE IF DGt(weights[weightIndex + 1], DZero)
            /\ DLe(selected, DAdd(total, weights[weightIndex + 1]))
         THEN Def(weightIndex)
    ELSE IF weightIndex = Len(weights) - 1
         THEN Def(IF DGt(weights[weightIndex + 1], DZero) THEN weightIndex ELSE lastGoodIdx)
    ELSE weighted_scan(weights, selected, weightIndex + 1,
                       DAdd(total, weights[weightIndex + 1]),
                       IF DGt(weights[weightIndex + 1], DZero)
                       THEN weightIndex ELSE lastGoodIdx)

\* a take that trims arr and leaves weights as it was
weighted_take_arr(h, arr, weights, trim, chosenIdx) ==
    [h |-> IF trim # Undefined /\ trim[1] THEN splice(h, arr, chosenIdx) ELSE h,
     thrown |-> "none", chosenIdx |-> Def(chosenIdx), value |-> Def(h[arr][chosenIdx + 1])]

\* lines 469-476: the element chosen, and the two splices when trim is truthy
weighted_take(h, arr, weights, trim, chosenIdx) ==
    [h |-> IF trim # Undefined /\ trim[1]
           THEN splice(splice(h, arr, chosenIdx), weights, chosenIdx)
           ELSE h,
     thrown |-> "none", chosenIdx |-> Def(chosenIdx), value |-> Def(h[arr][chosenIdx + 1])]

\* weighted(arr, weights, trim) on the heap h when this.random() returns r: the
\* heap after it and what it threw or chose
weighted(h, arr, weights, trim, r) ==
    LET Failed == [h |-> h, thrown |-> "RangeError", chosenIdx |-> Undefined,
                   value |-> Undefined]
        Chosen(c) == weighted_take(h, arr, weights, trim, c[1])
        Summed(sum) ==
            IF sum = DZero THEN Failed
            ELSE Chosen(weighted_scan(h[weights], DMul(r, sum), 0, DZero, -1))
    IN  IF Len(h[arr]) # Len(h[weights]) THEN Failed
        ELSE Summed(weighted_sum(h[weights], 0, DZero))

Weighted ==
    /\ wt.pc = "called"
    /\ \E k \in ArrayDraws :
         \E r \in {weighted(arrs, wt.arr, wt.weights, wt.trim, DFraction(k))} :
           /\ arrs' = r.h
           /\ wt' = [wt EXCEPT !.pc = IF r.thrown = "none" THEN "returned" ELSE "thrown",
                               !.k = k, !.chosenIdx = r.chosenIdx, !.value = r.value]
    /\ UNCHANGED <<mtVars, samp, uq, shuf, call>>

\* the array of n elements weighted chooses from: 11, 12, ...
Items(n) == [i \in 1..n |-> 10 + i]

\* the two arrays (two objects) and the trim weighted is about to be called
\* with; before keeps the heap as the call finds it
InitWeighted ==
    /\ IdleMT /\ IdleSampling /\ IdleUnique /\ IdleShuffle /\ IdleCall
    /\ \E n \in 0..MaxLen, w \in SeqsUpTo(WeightValues, MaxLen), t \in TrimValues :
           /\ arrs = <<Items(n), w>>
           /\ wt = [pc |-> "called", arr |-> 1, weights |-> 2, trim |-> t,
                    before |-> <<Items(n), w>>, k |-> <<0, 0>>,
                    chosenIdx |-> Undefined, value |-> Undefined]

NextWeighted == Weighted

SpecWeighted == InitWeighted /\ [][NextWeighted]_vars

\* C9: weighted never returns the element at an index whose weight is <= 0:
\* what it returns is the element at an index whose weight is above 0.
C9_NeverNonPositiveWeight ==
    wt.pc = "returned" =>
        /\ wt.chosenIdx # Undefined
        /\ wt.chosenIdx[1] \in 0..(Len(wt.before[wt.weights]) - 1)
        /\ DGt(wt.before[wt.weights][wt.chosenIdx[1] + 1], DZero)
        /\ wt.value = Def(wt.before[wt.arr][wt.chosenIdx[1] + 1])

\* among a negative, a positive and a zero weight the positive one was chosen
\* on the largest draw, after the scan had run to the end
C9_Witness ==
    /\ wt.pc = "returned"
    /\ wt.before[wt.weights] = <<DInt(-1), DInt(2), DZero>>
    /\ wt.k = <<65535, 65535>>
    /\ wt.chosenIdx = Def(1)
    /\ wt.value = Def(12)

\* the array a without its index idx: one shorter, the others in their order
Without(a, idx) ==
    [i \in 1..(Len(a) - 1) |-> IF i <= idx THEN a[i] ELSE a[i + 1]]

\* C10: with trim true a call that returns has removed the chosen index, and
\* nothing else, from both arr and weights; with trim false or omitted, and
\* when the call throws, both arrays are as they were.
C10_TrimRemovesChosen ==
    /\ (wt.pc = "returned" /\ wt.trim = Def(TRUE)) =>
           /\ arrs[wt.arr] = Without(wt.before[wt.arr], wt.chosenIdx[1])
           /\ arrs[wt.weights] = Without(wt.before[wt.weights], wt.chosenIdx[1])
           /\ Len(arrs[wt.arr]) = Len(arrs[wt.weights])
    /\ (wt.pc = "returned" /\ wt.trim # Def(TRUE)) => arrs = wt.before
    /\ wt.pc = "thrown" => arrs = wt.before

\* with trim true the middle one of three was chosen and removed
C10_Witness ==
    /\ wt.pc = "returned"
    /\ wt.trim = Def(TRUE)
    /\ wt.chosenIdx = Def(1)
    /\ wt.before[wt.arr] = <<11, 12, 13>>
    /\ arrs[wt.arr] = <<11, 13>>
    /\ Len(arrs[wt.weights]) = 2

-----------------------------------------------------------------------------
(* pick, pickone, pickset (part_000 370-405).  A call yields the heap      *)
(* after it, what it threw, the value returned (an element, or the         *)
(* elements of the array returned) and the number of draws it made.        *)

\* the specifications below exercise call and the arrays only
IdleOthers == IdleMT /\ IdleSampling /\ IdleUnique /\ IdleShuffle /\ IdleWeighted

Outcome4(h, thrown, value, drawn) ==
    [h |-> h, thrown |-> thrown, value |-> value, drawn |-> drawn]

\* a.slice(0, count) of the elements a
slice_to(a, count) ==
    IF count >= 0 THEN SubSeq(a, 1, MinOf(count, Len(a)))
    ELSE SubSeq(a, 1, MaxOf(Len(a) + count, 0))

\* this.shuffle(arr).slice(0, count)
shuffle_slice(h, arr, count, draws) ==
    LET Sliced(s) == Outcome4(s.h, "none", Def(slice_to(s.h[s.ref], count)), Len(h[arr]))
    IN  Sliced(shuffle(h, arr, draws))

\* lines 382-387
pickone(h, arr, draws) ==
    IF Len(h[arr]) = 0 THEN Outcome4(h, "RangeError", Undefined, 0)
    ELSE Outcome4(h, "none", Def(h[arr][shuffle_pick(Len(h[arr]), draws[1]) + 1]), 1)

\* lines 370-379
pick(h, arr, count, draws) ==
    IF Len(h[arr]) = 0 THEN Outcome4(h, "RangeError", Undefined, 0)
    ELSE IF count = Undefined \/ count = Def(0) \/ count = Def(1)
         THEN Outcome4(h, "none", Def(h[arr][shuffle_pick(Len(h[arr]), draws[1]) + 1]), 1)
    ELSE shuffle_slice(h, arr, count[1], draws)

\* lines 390-405
pickset(h, arr, count, draws) ==
    IF count = Def(0) THEN Outcome4(h, "none", Def(<<>>), 0)
    ELSE IF Len(h[arr]) = 0 THEN Outcome4(h, "RangeError", Undefined, 0)
    ELSE IF count # Undefined /\ count[1] < 0 THEN Outcome4(h, "RangeError", Undefined, 0)
    ELSE IF count = Undefined \/ count = Def(1)
         THEN LET One(p) == Outcome4(p.h, p.thrown, Def(<<p.value[1]>>), p.drawn)
              IN  One(pickone(h, arr, draws))
    ELSE shuffle_slice(h, arr, count[1], draws)

\* the call under way has returned or thrown r
Finish(r) ==
    /\ arrs' = r.h
    /\ call' = [call EXCEPT !.pc = "done", !.thrown = r.thrown, !.value = r.value,
                            !.drawn = r.drawn]

Pickone ==
    /\ call.pc = "called" /\ call.fn = "pickone"
    /\ \E draws \in [1..Len(arrs[call.arr]) -> ArrayDraws] :
           Finish(pickone(arrs, call.arr, draws))
    /\ UNCHANGED <<mtVars, samp, uq, shuf, wt>>

Pick ==
    /\ call.pc = "called" /\ call.fn = "pick"
    /\ \E draws \in [1..Len(arrs[call.arr]) -> ArrayDraws] :
           Finish(pick(arrs, call.arr, call.count, draws))
    /\ UNCHANGED <<mtVars, samp, uq, shuf, wt>>

Pickset ==
    /\ call.pc = "called" /\ call.fn = "pickset"
    /\ \E draws \in [1..Len(arrs[call.arr]) -> ArrayDraws] :
           Finish(pickset(arrs, call.arr, call.count, draws))
    /\ UNCHANGED <<mtVars, samp, uq, shuf, wt>>

\* the function about to be called, its array (of 0 .. MaxLen elements) and its
\* count (left out, or -1 .. MaxLen)
InitPick ==
    /\ IdleOthers
    /\ \E fn \in {"pickone", "pick", "pickset"}, n \in 0..MaxLen,
          c \in {Undefined} \cup {Def(i) : i \in -1..MaxLen} :
           /\ arrs = <<Items(n)>>
           /\ call = [pc |-> "called", fn |-> fn, arr |-> 1, count |-> c,
                      before |-> <<Items(n)>>, thrown |-> "none", value |-> Undefined,
                      drawn |-> 0]

NextPick == Pickone \/ Pick \/ Pickset

SpecPick == InitPick /\ [][NextPick]_vars

\* C11: pickone, pick and pickset raise a range error, returning nothing, on
\* every call with an empty array, and pick and pickset on every call with a
\* negative count.
C11_PickRangeErrors ==
    call.pc = "done" =>
        /\ Len(call.before[call.arr]) = 0 =>
               (call.thrown = "RangeError" /\ call.value = Undefined)
        /\ (call.fn \in {"pick", "pickset"} /\ call.count # Undefined /\ call.count[1] < 0) =>
               (call.thrown = "RangeError" /\ call.value = Undefined)

-----------------------------------------------------------------------------
(* character, string and n (part_000 143-172, 265-272, 339-358).  A string *)
(* is the sequence of its characters.  The options argument of a call is   *)
(* Undefined when the caller passed none, and otherwise Def of the object  *)
(* passed, as it stands; a call yields what it threw or returned, that     *)
(* object as the call left it, and the number of draws it made.  The draws *)
(* come from a stream st = <<a, b>> of words: a, b, a, b, ...              *)

NUMBERS == <<"0", "1", "2", "3", "4", "5", "6", "7", "8", "9">>
CHARS_LOWER ==
    << "a", "b", "c", "d", "e", "f", "g", "h", "i", "j", "k", "l", "m",
       "n", "o", "p", "q", "r", "s", "t", "u", "v", "w", "x", "y", "z" >>
CHARS_UPPER ==
    << "A", "B", "C", "D", "E", "F", "G", "H", "I", "J", "K", "L", "M",
       "N", "O", "P", "Q", "R", "S", "T", "U", "V", "W", "X", "Y", "Z" >>

\* the draw made after `at` draws of the stream st
DrawAt(st, at) == DFraction(st[(at % 2) + 1])

\* {}: the object initOptions makes when no options were passed
StringOptions(pool, length, alpha, symbols, casing) ==
    [pool |-> pool, length |-> length, alpha |-> alpha, symbols |-> symbols,
     casing |-> casing]

EmptyObject == StringOptions(Undefined, Undefined, Undefined, Undefined, Undefined)

Yield(thrown, value, options, drawn) ==
    [thrown |-> thrown, value |-> value, options |-> options, drawn |-> drawn]

\* character that picks from every character whatever the options say
character_any(options, r) ==
    LET pool == CHARS_LOWER \o CHARS_UPPER \o NUMBERS
    IN  Yield("none", Def(pool[shuffle_pick(Len(pool), r) + 1]),
              IF options = Undefined THEN Undefined ELSE options, 1)

\* lines 143-172; r is the word of the draw
character(options, r) ==
    LET o       == IF options = Undefined THEN EmptyObject ELSE options[1]
        symbols == <<"!", "@", "#", "$", "%", "^", "&", "*", "(", ")", "[", "]">>
        letters == IF o.casing = Def("lower") THEN CHARS_LOWER
                   ELSE IF o.casing = Def("upper") THEN CHARS_UPPER
                   ELSE CHARS_LOWER \o CHARS_UPPER
        pool    == IF o.pool # Undefined /\ o.pool[1] # <<>> THEN o.pool[1]
                   ELSE IF o.alpha = Def(TRUE) THEN letters
                   ELSE IF o.symbols = Def(TRUE) THEN symbols
                   ELSE letters \o NUMBERS \o symbols
    IN  IF o.alpha = Def(TRUE) /\ o.symbols = Def(TRUE)
        THEN Yield("RangeError", Undefined, options, 0)
        ELSE Yield("none", Def(pool[shuffle_pick(Len(pool), r) + 1]), options, 1)

RECURSIVE n_loop(_, _, _, _, _, _, _)
RECURSIVE string(_, _, _)

\* fn.apply(this, params) after `at` draws, for fn the character, the integer or
\* the string function and params holding the one argument options
Apply(fn, options, st, at) ==
    IF fn = "character" THEN character(options, st[(at % 2) + 1])
    ELSE IF fn = "integer"
         THEN LET Drawn(x) == Yield(x.thrown, x.value, Def(x.options), 1)
              IN  Drawn(integer(options[1], DrawAt(st, at)))
    ELSE string(options, st, at)

\* lines 353-355: the i turns left of the loop of n; arr holds the results so
\* far, received what each application found in its argument, drawn counts
\* the draws so far
n_loop(fn, i, arr, received, options, st, drawn) ==
    IF i <= 0 THEN [thrown |-> "none", value |-> Def(arr), options |-> options,
                    drawn |-> drawn, received |-> received]
    ELSE LET Pushed(a) ==
                 IF a.thrown # "none"
                 THEN [thrown |-> a.thrown, value |-> Undefined, options |-> a.options,
                       drawn |-> drawn + a.drawn, received |-> Append(received, options)]
                 ELSE n_loop(fn, i - 1, Append(arr, a.value[1]),
                             Append(received, options), a.options, st, drawn + a.drawn)
         IN  Pushed(Apply(fn, options, st, drawn))

\* lines 339-358: n(fn, n, options) for fn a function (character or string) or
\* not, after `at` draws
n(fnIsFunction, fn, count, options, st, at) ==
    IF ~fnIsFunction
    THEN [thrown |-> "RangeError", value |-> Undefined, options |-> options,
          drawn |-> at, received |-> <<>>]
    ELSE n_loop(fn, IF count = Undefined THEN 1 ELSE count[1], <<>>, <<>>, options, st, at)

\* lines 265-272, after `at` draws; the default of length is drawn before
\* initOptions looks at the options
string(options, st, at) ==
    LET Joined(text) ==
            Yield(text.thrown, text.value,
                  IF options = Undefined THEN Undefined ELSE text.options, text.drawn - at)
        Tested(o) ==
            IF DLt(o.length[1], DZero)
            THEN Yield("RangeError", Undefined,
                       IF options = Undefined THEN Undefined ELSE Def(o), 1)
            ELSE Joined(n(TRUE, "character", Def(DToInt(o.length[1])), Def(o), st, at + 1))
    IN  Tested(initOptions(IF options = Undefined THEN EmptyObject ELSE options[1],
                           [length |-> natural(MinMax(5, 20), DrawAt(st, at)).value[1]]))

\* explicit lengths tried are -1 .. MaxStr
MaxStr == 3

\* the call under way has returned or thrown r
FinishN(r) ==
    call' = [call EXCEPT !.pc = "done", !.thrown = r.thrown, !.value = r.value,
                         !.options = r.options, !.drawn = r.drawn, !.received = r.received]

CallString ==
    /\ call.pc = "called" /\ call.fn = "string"
    /\ \E r \in {string(call.params, call.st, 0)} :
           FinishN([thrown |-> r.thrown, value |-> r.value, options |-> r.options,
                    drawn |-> r.drawn, received |-> <<>>])
    /\ UNCHANGED <<mtVars, samp, uq, arrVars>>

CallN ==
    /\ call.pc = "called" /\ call.fn = "n"
    /\ FinishN(n(call.isFunction, call.inner, call.count, call.params, call.st, 0))
    /\ UNCHANGED <<mtVars, samp, uq, arrVars>>

StringCall(fn, isFunction, inner, count, params, st) ==
    [pc |-> "called", fn |-> fn, isFunction |-> isFunction, inner |-> inner,
     count |-> count, params |-> params, st |-> st, thrown |-> "none",
     value |-> Undefined, options |-> Undefined, drawn |-> 0, received |-> <<>>]

\* a call of string with options from small sets, or a call of n on character or
\* on string, and the stream of draws it will find
InitString ==
    /\ IdleOthers /\ arrs = <<>>
    /\ \E a \in ArrayDraws, b \in ArrayDraws :
        \/ \E o \in {Undefined} \cup
                    {Def(StringOptions(p, l, al, sy, c)) :
                        p \in {Undefined, Def(<<"a", "b", "c">>)},
                        l \in {Undefined} \cup {Def(DInt(i)) : i \in -1..MaxStr},
                        al \in {Undefined, Def(TRUE)}, sy \in {Undefined, Def(TRUE)},
                        c \in {Undefined, Def("lower"), Def("upper")}} :
              call = StringCall("string", TRUE, "none", Undefined, o, <<a, b>>)
        \/ \E f \in BOOLEAN, inner \in {"character", "string"},
              count \in {Undefined} \cup {Def(i) : i \in -1..MaxNum},
              o \in {Undefined, Def(EmptyObject),
                     Def([EmptyObject EXCEPT !.pool = Def(<<"a", "b", "c">>)]),
                     Def([EmptyObject EXCEPT !.length = Def(DInt(2))])} :
              call = StringCall("n", f, inner, count, o, <<a, b>>)

NextString == CallString \/ CallN

SpecString == InitString /\ [][NextString]_vars

\* C12: n(fn, count, options) returns max(0, count) results, each application
\* of fn having received the argument as the caller supplied it; a negative
\* count returns the empty array without a draw.
C12_NIndependentApplications ==
    (call.pc = "done" /\ call.fn = "n" /\ call.thrown = "none" /\ call.count # Undefined) =>
        /\ Len(call.value[1]) = MaxOf(0, call.count[1])
        /\ Len(call.received) = MaxOf(0, call.count[1])
        /\ \A i \in 1..Len(call.received) : call.received[i] = call.params
        /\ call.count[1] < 0 => (call.value = Def(<<>>) /\ call.drawn = 0)

\* the elements of a sequence
Range(q) == {q[i] : i \in 1..Len(q)}

\* C19: string raises a range error when length < 0; otherwise what it returns
\* has exactly length characters (5 to 20 when length is omitted), each from
\* the pool in effect, and it returns unless alpha and symbols are both set.
C19_StringLengthAndPool ==
    (call.pc = "done" /\ call.fn = "string") =>
        LET o == IF call.params = Undefined THEN EmptyObject ELSE call.params[1]
            letters == IF o.casing = Def("lower") THEN Range(CHARS_LOWER)
                       ELSE IF o.casing = Def("upper") THEN Range(CHARS_UPPER)
                       ELSE Range(CHARS_LOWER) \cup Range(CHARS_UPPER)
            symbols == {"!", "@", "#", "$", "%", "^", "&", "*", "(", ")", "[", "]"}
            pool == IF o.pool # Undefined THEN Range(o.pool[1])
                    ELSE IF o.alpha # Undefined THEN letters
                    ELSE IF o.symbols # Undefined THEN symbols
                    ELSE letters \cup Range(NUMBERS) \cup symbols
        IN  IF o.length # Undefined /\ DLt(o.length[1], DZero)
            THEN call.thrown = "RangeError" /\ call.value = Undefined
            ELSE /\ call.thrown = "none" =>
                       /\ IF o.length = Undefined THEN Len(call.value[1]) \in 5..20
                          ELSE Len(call.value[1]) = DToInt(o.length[1])
                       /\ Range(call.value[1]) \subseteq pool
                 /\ call.thrown # "none" =>
                       (o.alpha # Undefined /\ o.symbols # Undefined /\ o.length # Def(DZero))

\* with the length left out, string returned 13 characters of the pool "abc"
C19_Witness ==
    /\ call.pc = "done" /\ call.fn = "string" /\ call.thrown = "none"
    /\ call.params # Undefined
    /\ call.params[1].length = Undefined
    /\ call.params[1].pool = Def(<<"a", "b", "c">>)
    /\ Len(call.value[1]) = 13
    /\ "c" \in Range(call.value[1])

-----------------------------------------------------------------------------
(* luhn_calculate, luhn_check and cc (part_000 1614-1661, 1977-1999,       *)
(* 2820-2838).  A digit string is the sequence of its digits.              *)

\* a * 10 + d for a natural a and a digit d
BTimes10Plus(a, d) == BNorm(BMulLimbFrom(a, 10, 1, d))

\* the natural a string of digits denotes
RECURSIVE BOfDigits(_, _, _)
BOfDigits(ds, i, a) ==
    IF i > Len(ds) THEN a ELSE BOfDigits(ds, i + 1, BTimes10Plus(a, ds[i]))

\* a \div 10 and a % 10, from limb i down with the remainder rem of the limbs above
RECURSIVE BDivMod10(_, _, _)
BDivMod10(a, i, rem) ==
    IF i = 0 THEN [q |-> <<>>, r |-> rem]
    ELSE LET Lower(x) ==
                 [q |-> Append(x.q, ((rem * Half) + a[i]) \div 10), r |-> x.r]
         IN  Lower(BDivMod10(a, i - 1, ((rem * Half) + a[i]) % 10))

\* the decimal digits of a natural a > 0, ahead of the digits ds
RECURSIVE BDigits(_, _)
BDigits(a, ds) ==
    IF a = <<>> THEN ds
    ELSE LET Next(x) == BDigits(BNorm(x.q), <<x.r>> \o ds)
         IN  Next(BDivMod10(a, Len(a), 0))

\* (+str).toString() for a string of fewer than 22 digits: the digits of the
\* Number nearest to the natural the string denotes
NumberToString(ds) ==
    LET Printed(a) == IF a = <<>> THEN <<0>> ELSE BDigits(a, <<>>)
    IN  Printed(RoundD(BOfDigits(ds, 1, <<>>)))

\* lines 1988-1996: the loop of luhn_calculate over the reversed digits, from
\* index i on
RECURSIVE luhn_sum(_, _, _)
luhn_sum(ds, i, sum) ==
    IF i >= Len(ds) THEN sum
    ELSE LET digit   == ds[Len(ds) - i]
             doubled == IF 2 * digit > 9 THEN (2 * digit) - 9 ELSE 2 * digit
         IN  luhn_sum(ds, i + 1, sum + (IF i % 2 = 0 THEN doubled ELSE digit))

\* lines 1983-1999, on the digits of num.toString()
luhn_calculate(ds) == (luhn_sum(ds, 0, 0) * 9) % 10

\* lines 1977-1981, for a non-empty digit string
luhn_check(ds) ==
    ds[Len(ds)] = luhn_calculate(NumberToString(SubSeq(ds, 1, Len(ds) - 1)))

\* lines 2820-2838, by short_name
cc_types ==
    <<
       [short_name |-> "amex", prefix |-> <<3, 4>>, length |-> 15],
       [short_name |-> "bankcard", prefix |-> <<5, 6, 1, 0>>, length |-> 16],
       [short_name |-> "chinaunion", prefix |-> <<6, 2>>, length |-> 16],
       [short_name |-> "dccarte", prefix |-> <<3, 0, 0>>, length |-> 14],
       [short_name |-> "dcenroute", prefix |-> <<2, 0, 1, 4>>, length |-> 15],
       [short_name |-> "dcintl", prefix |-> <<3, 6>>, length |-> 14],
       [short_name |-> "dcusc", prefix |-> <<5, 4>>, length |-> 16],
       [short_name |-> "discover", prefix |-> <<6, 0, 1, 1>>, length |-> 16],
       [short_name |-> "instapay", prefix |-> <<6, 3, 7>>, length |-> 16],
       [short_name |-> "jcb", prefix |-> <<3, 5, 2, 8>>, length |-> 16],
       [short_name |-> "laser", prefix |-> <<6, 3, 0, 4>>, length |-> 16],
       [short_name |-> "maestro", prefix |-> <<5, 0, 1, 8>>, length |-> 16],
       [short_name |-> "mc", prefix |-> <<5, 1>>, length |-> 16],
       [short_name |-> "solo", prefix |-> <<6, 3, 3, 4>>, length |-> 16],
       [short_name |-> "switch", prefix |-> <<4, 9, 0, 3>>, length |-> 16],
       [short_name |-> "visa", prefix |-> <<4>>, length |-> 16],
       [short_name |-> "electron", prefix |-> <<4, 0, 2, 6>>, length |-> 16] >>

\* lines 1640-1661: cc_type({name: name, raw: true}), or cc_type({raw: true})
\* when no name is given; k is the word of the draw pick makes
cc_type(name, k) ==
    IF name = Undefined
    THEN Yield("none", Def(cc_types[shuffle_pick(Len(cc_types), k) + 1]), Undefined, 1)
    ELSE IF \E i \in 1..Len(cc_types) : cc_types[i].short_name = name[1]
         THEN Yield("none",
                    Def(cc_types[CHOOSE i \in 1..Len(cc_types) :
                                     cc_types[i].short_name = name[1]]),
                    Undefined, 0)
    ELSE Yield("RangeError", Undefined, Undefined, 0)

\* lines 1614-1633: cc({type: name}), or cc() when no name is given
cc(name, st) ==
    LET Numbered(type, digits) ==
            LET number == type.prefix \o [i \in 1..Len(digits.value[1]) |->
                                             DToInt(digits.value[1][i])]
            IN  [thrown |-> "none", type |-> Def(type),
                 value |-> Def(Append(number, luhn_calculate(number))),
                 drawn |-> digits.drawn]
        Typed(t) ==
            IF t.thrown # "none"
            THEN [thrown |-> t.thrown, type |-> Undefined, value |-> Undefined, drawn |-> 0]
            ELSE Numbered(t.value[1],
                          n(TRUE, "integer",
                            Def(t.value[1].length - Len(t.value[1].prefix) - 1),
                            Def(MinMax(0, 9)), st, t.drawn))
    IN  Typed(cc_type(name, st[1]))

\* the digit strings tried have up to MaxDigits digits, or are one of LongDigits
MaxDigits == 2

LongDigits ==
    { <<4, 1, 1, 1, 1, 1, 1, 1, 1, 1, 1, 1, 1, 1, 1>>,
      <<9, 0, 0, 7, 1, 9, 9, 2, 5, 4, 7, 4, 0, 9, 9, 2>>,
      <<9, 0, 0, 7, 1, 9, 9, 2, 5, 4, 7, 4, 0, 9, 9, 3>>,
      <<1, 2, 3, 4, 5, 6, 7, 8, 9, 0, 1, 2, 3, 4, 5, 6, 7>> }

\* cc() or cc({type: name}), followed by luhn_check of what it returned
CallCc ==
    /\ call.pc = "called" /\ call.fn = "cc"
    /\ \E r \in {cc(call.name, call.st)} :
           call' = [call EXCEPT !.pc = "done", !.thrown = r.thrown, !.type = r.type,
                                !.value = r.value,
                                !.checked = IF r.thrown = "none"
                                            THEN Def(luhn_check(r.value[1])) ELSE Undefined]
    /\ UNCHANGED <<mtVars, samp, uq, arrVars>>

\* luhn_check(s + luhn_calculate(s)) for the digit string s
LuhnRoundTrip ==
    /\ call.pc = "called" /\ call.fn = "luhn"
    /\ \E d \in {luhn_calculate(call.s)} :
           call' = [call EXCEPT !.pc = "done", !.value = Def(d),
                                !.checked = Def(luhn_check(Append(call.s, d)))]
    /\ UNCHANGED <<mtVars, samp, uq, arrVars>>

InitLuhn ==
    /\ IdleOthers /\ arrs = <<>>
    /\ \E fn \in {"cc", "luhn"}, a \in ArrayDraws, b \in ArrayDraws,
          name \in {Undefined, Def("unknown")} \cup
                   {Def(cc_types[i].short_name) : i \in 1..Len(cc_types)},
          s \in SeqsUpTo(0..9, MaxDigits) \cup LongDigits :
           /\ fn = "cc" => s = <<>>
           /\ fn = "luhn" => (name = Undefined /\ a = <<0, 0>> /\ b = <<0, 0>>)
           /\ call = [pc |-> "called", fn |-> fn, name |-> name, st |-> <<a, b>>,
                      s |-> s, thrown |-> "none", type |-> Undefined,
                      value |-> Undefined, checked |-> Undefined]

NextLuhn == CallCc \/ LuhnRoundTrip

SpecLuhn == InitLuhn /\ [][NextLuhn]_vars

\* C13: every cc() output starts with the prefix of the issuer chosen, has the
\* issuer's length and passes luhn_check, and luhn_check(s + luhn_calculate(s))
\* is true for every digit string s.
C13_LuhnRoundTrip ==
    call.pc = "done" =>
        /\ (call.fn = "cc" /\ call.thrown = "none") =>
               /\ Len(call.value[1]) = call.type[1].length
               /\ IsPrefix(call.type[1].prefix, call.value[1])
               /\ call.checked = Def(TRUE)
        /\ call.fn = "luhn" => call.checked = Def(TRUE)

-----------------------------------------------------------------------------
(* get and copyObject (part_000 4384-4416) over the data tables.  arrs is  *)
(* the heap of objects: an array holds a sequence of items, an object a    *)
(* record of them; an item is a string, a number or a reference to an      *)
(* object of the heap.                                                     *)

StringOf(x) == [str |-> x]

NumberOf(x) == [num |-> x]

Ref(k) == [ref |-> k]

IsRef(x) == "ref" \in DOMAIN x

Missing == [undefined |-> TRUE]

BoolOf(x) == [bool |-> x]

Truthy(x) == x # Missing /\ x # StringOf("") /\ x # NumberOf(0) /\ x # BoolOf(FALSE)

ArrayOf(items) == [isArray |-> TRUE, items |-> items]

ObjectOf(items) == [isArray |-> FALSE, items |-> items]

\* the first entries of three tables of data (lines 3008, 2803-2806,
\* 2693-2696 and 2731-2733), as the heap holds them; data[name] is object 1
data ==
    [colorNames |-> << ArrayOf(<<StringOf("AliceBlue"), StringOf("Black")>>) >>,
     months |->
        << ArrayOf(<<Ref(2), Ref(3)>>),
           ObjectOf([name |-> StringOf("January"), days |-> NumberOf(31)]),
           ObjectOf([name |-> StringOf("February"), days |-> NumberOf(28)]) >>,
     street_suffixes |->
        << ObjectOf([us |-> Ref(2), it |-> Ref(3)]),
           ArrayOf(<<Ref(4), Ref(5)>>),
           ArrayOf(<<Ref(6)>>),
           ObjectOf([name |-> StringOf("Avenue"), abbreviation |-> StringOf("Ave")]),
           ObjectOf([name |-> StringOf("Boulevard"), abbreviation |-> StringOf("Blvd")]),
           ObjectOf([name |-> StringOf("Accesso"), abbreviation |-> StringOf("Acc.")]) >>]

\* lines 4384-4392, into a new object
_copyObject(source) ==
    [key \in DOMAIN source |->
        IF Truthy(source[key]) THEN source[key] ELSE Missing]

\* lines 4394-4398, into new Array(source.length)
_copyArray(source) == [i \in 1..Len(source) |-> source[i]]

\* lines 4400-4411 without a _target: the heap with the copy appended
copyObject(h, source) ==
    Append(h, IF source.isArray THEN ArrayOf(_copyArray(source.items))
              ELSE ObjectOf(_copyObject(source.items)))

\* lines 4414-4416: get(name), data[name] being object 1 of the heap
get(h) == copyObject(h, h[1])

\* what the caller sees of the item x: a string, a number, or the items of the
\* object x refers to, to any depth
RECURSIVE Seen(_, _)
Seen(h, x) ==
    IF IsRef(x)
    THEN [isArray |-> h[x.ref].isArray,
          items |-> [key \in DOMAIN h[x.ref].items |-> Seen(h, h[x.ref].items[key])]]
    ELSE x

\* the objects a caller holding the objects of refs can reach
RECURSIVE Reach(_, _)
Reach(h, refs) ==
    LET more == refs \cup UNION { { h[k].items[key].ref :
                                      key \in { key \in DOMAIN h[k].items :
                                                  IsRef(h[k].items[key]) } } :
                                  k \in refs }
    IN  IF more = refs THEN refs ELSE Reach(h, more)

\* the gets and the writes of a caller are bounded
MaxGets == 2

MaxWrites == 2

\* var t = chance.get(name)
Get ==
    /\ call.pc = "ready" /\ Len(call.got) < MaxGets
    /\ arrs' = get(arrs)
    /\ call' = [call EXCEPT !.got = Append(call.got, Len(arrs'))]
    /\ UNCHANGED <<mtVars, samp, uq, shuf, wt>>

\* the caller writes an item of a copy it got: t[key] = 'changed'
WriteCopy ==
    /\ call.pc = "ready" /\ call.writes < MaxWrites
    /\ \E i \in 1..Len(call.got) : \E key \in DOMAIN arrs[call.got[i]].items :
           arrs' = [arrs EXCEPT ![call.got[i]].items[key] = StringOf("changed")]
    /\ call' = [call EXCEPT !.writes = call.writes + 1]
    /\ UNCHANGED <<mtVars, samp, uq, shuf, wt>>

\* the caller writes an item of an object it reached through a copy it got:
\* t[key1][key] = 'changed', or deeper
WriteNested ==
    /\ call.pc = "ready" /\ call.writes < MaxWrites
    /\ \E k \in Reach(arrs, Range(call.got)) \ Range(call.got) :
         \E key \in DOMAIN arrs[k].items :
           arrs' = [arrs EXCEPT ![k].items[key] = StringOf("changed")]
    /\ call' = [call EXCEPT !.writes = call.writes + 1, !.nested = TRUE]
    /\ UNCHANGED <<mtVars, samp, uq, shuf, wt>>

\* lines 1110, 1572 and 1452-1453: color({format: 'name'}), month({raw: true})
\* or street_suffix() on the draw of word k: a pick from what get returns
Generate ==
    /\ call.pc = "ready"
    /\ \E k \in ArrayDraws :
         LET Picked(h, from) ==
                 /\ arrs' = h
                 /\ call' = [call EXCEPT !.pc = "done", !.value =
                        Def(Seen(h, from.items[shuffle_pick(Len(from.items), k) + 1]))]
             Got(h) == Picked(h, IF call.name = "street_suffixes"
                                 THEN h[h[Len(h)].items.us.ref] ELSE h[Len(h)])
         IN  Got(get(arrs))
    /\ UNCHANGED <<mtVars, samp, uq, shuf, wt>>

InitGet ==
    /\ IdleOthers
    /\ \E name \in DOMAIN data :
           /\ arrs = data[name]
           /\ call = [pc |-> "ready", name |-> name, got |-> <<>>, writes |-> 0,
                      nested |-> FALSE, value |-> Undefined]

NextGet == Get \/ WriteCopy \/ WriteNested \/ Generate

SpecGet == InitGet /\ [][NextGet]_vars

\* what the generator of a table may return: an entry of the table as built
Entries(name) ==
    LET from == IF name = "street_suffixes" THEN data[name][2] ELSE data[name][1]
    IN  { Seen(data[name], from.items[i]) : i \in DOMAIN from.items }

\* C14: get returns a deep copy: whatever the caller writes into what it got, at
\* any depth, the table (what a later get returns) and the generators' outputs
\* stay as they were.
C14_GetReturnsDeepCopy ==
    /\ Seen(arrs, Ref(1)) = Seen(data[call.name], Ref(1))
    /\ call.value # Undefined => call.value[1] \in Entries(call.name)

-----------------------------------------------------------------------------
(* The draws a call makes: pl_nip, exp_month and normal (part_000          *)
(* 1885-1898, 1743-1759, 4440-4465).  The same call is run twice, on two   *)
(* streams of draws; a run is the call's position, the draws it has made   *)
(* and its result.                                                         *)

\* lines 361-367: pad(number, width), as digits
pad(number, width) == [j \in 1..width |-> (number \div (10 ^ (width - j))) % 10]

\* lines 1886-1896: one activation of pl_nip on the draw of word k: the digits
\* and the control number
pl_nip_turn(k) ==
    LET Controlled(arr) ==
            [arr |-> arr,
             controlNumber |-> (6 * arr[1] + 5 * arr[2] + 7 * arr[3] + 2 * arr[4]
                                + 3 * arr[5] + 4 * arr[6] + 5 * arr[7] + 6 * arr[8]
                                + 7 * arr[9]) % 11]
    IN  Controlled(pad(DToInt(natural(MinMax(1, 999999999), DFraction(k)).value[1]), 9))

\* lines 1567-1576 and 2803-2816: parseInt(this.month({raw: true}).numeric, 10)
\* on the draw of word k
month_numeric(k) == shuffle_pick(12, k) + 1

\* lines 4459-4465: s = u * u + v * v for the draws of words k1 and k2
normal_s(k1, k2) ==
    LET U(r) == DSub(DMul(r, DInt(2)), DOne)
        Square(u) == DMul(u, u)
    IN  DAdd(Square(U(DFraction(k1))), Square(U(DFraction(k2))))

\* a run draws at most MaxDraws times
MaxDraws == 4

NipWords == {<<0, 0>>, <<0, 9>>, <<32768, 0>>, <<65535, 65535>>}

Run(pc, drawn, value) == [pc |-> pc, drawn |-> drawn, value |-> value]

Ran(i, run) ==
    /\ call' = [call EXCEPT !.runs[i] = run]
    /\ UNCHANGED <<mtVars, samp, uq, arrVars>>

\* lines 1885-1898: an activation of pl_nip in run i; it returns, or calls pl_nip
\* again when the control number is 10
PlNip(i) ==
    /\ call.pc = "draws" /\ call.fn = "pl_nip"
    /\ call.runs[i].pc = "called" /\ call.runs[i].drawn < MaxDraws
    /\ \E k \in NipWords : \E t \in {pl_nip_turn(k)} :
           Ran(i, IF t.controlNumber = 10
                  THEN Run("called", call.runs[i].drawn + 1, Undefined)
                  ELSE Run("done", call.runs[i].drawn + 1,
                           Def(Append(t.arr, t.controlNumber))))

\* lines 1743-1759: a turn of the do-while of exp_month in run i, or its else
\* branch; curMonth is the month of the clock
ExpMonth(i) ==
    /\ call.pc = "draws" /\ call.fn = "exp_month"
    /\ call.runs[i].pc = "called" /\ call.runs[i].drawn < MaxDraws
    /\ \E k \in ArrayDraws : \E month_int \in {month_numeric(k)} :
           Ran(i, IF call.future /\ call.curMonth # 12 /\ month_int <= call.curMonth
                  THEN Run("called", call.runs[i].drawn + 1, Undefined)
                  ELSE Run("done", call.runs[i].drawn + 1, Def(month_int)))

\* lines 4459-4465: a turn of the do-while of normal() in run i; the variate
\* computed after the loop is left as the s it is computed from
Normal(i) ==
    /\ call.pc = "draws" /\ call.fn = "normal"
    /\ call.runs[i].pc = "called" /\ call.runs[i].drawn + 2 <= MaxDraws
    /\ \E k1 \in ArrayDraws, k2 \in ArrayDraws : \E sq \in {normal_s(k1, k2)} :
           Ran(i, IF ~DLt(sq, DOne)
                  THEN Run("called", call.runs[i].drawn + 2, Undefined)
                  ELSE Run("done", call.runs[i].drawn + 2, Def(sq)))

InitDraws ==
    /\ IdleOthers /\ arrs = <<>>
    /\ \E fn \in {"pl_nip", "exp_month", "normal"}, future \in BOOLEAN,
          curMonth \in 1..12 :
           /\ fn # "exp_month" => (~future /\ curMonth = 1)
           /\ call = [pc |-> "draws", fn |-> fn, future |-> future,
                      curMonth |-> curMonth,
                      runs |-> <<Run("called", 0, Undefined), Run("called", 0, Undefined)>>]

NextDraws ==
    \E i \in 1..2 : PlNip(i) \/ ExpMonth(i) \/ Normal(i)

SpecDraws == InitDraws /\ [][NextDraws]_vars

\* C15: for fixed inputs a generator makes a fixed number of draws, whatever
\* the values drawn: two finished runs of the same call of pl_nip, exp_month or
\* normal have made the same number of draws.
C15_FixedDrawCount ==
    (call.runs[1].pc = "done" /\ call.runs[2].pc = "done") =>
        call.runs[1].drawn = call.runs[2].drawn

-----------------------------------------------------------------------------
(* The seed the constructor computes (part_000 20-56).                     *)

\* the components tried: numbers, and strings of zero, one and two characters
Components ==
    {NumArg(0), NumArg(42), NumArg(-3), StrArg(<<>>), StrArg(<<97>>), StrArg(<<97, 98>>)}

\* a construction has up to MaxArgs arguments
MaxArgs == 2

\* new Chance(...args), or Chance(...args)
Construct ==
    /\ call.pc = "called" /\ call.fn = "Chance"
    /\ \E c \in {Chance(<<>>, call.args, call.withNew, Entropy1)} :
           call' = [call EXCEPT !.pc = "done", !.seed = c.self.seed,
                                !.mti = c.h[c.self.mt].mti]
    /\ UNCHANGED <<mtVars, samp, uq, arrVars>>

InitSeed ==
    /\ IdleOthers /\ arrs = <<>>
    /\ \E args \in SeqsUpTo(Components, MaxArgs), withNew \in BOOLEAN :
           call = [pc |-> "called", fn |-> "Chance", args |-> args,
                   withNew |-> withNew, seed |-> Undefined, mti |-> 0]

NextSeed == Construct

SpecSeed == InitSeed /\ [][NextSeed]_vars

\* the sum over i of (n - i) * s_i, from component i on, s_i being the number
\* c_i or the hash of the string c_i
RECURSIVE SeedRule(_, _)
SeedRule(args, i) ==
    IF i >= Len(args) THEN DZero
    ELSE DAdd(DMul(DInt(Len(args) - i),
                   IF args[i + 1].t = "str" THEN string_hash(args[i + 1].str, 1, DZero)
                   ELSE args[i + 1].num),
              SeedRule(args, i + 1))

\* C16: the seed of an instance constructed with the components c_0..c_(n-1) is
\* the sum over i of (n - i) * s_i, s_i being c_i for a number and the
\* character-code hash of c_i for a string; with no components it is undefined.
C16_SeedingRule ==
    (call.pc = "done" /\ call.fn = "Chance") =>
        call.seed = IF call.args = <<>> THEN Undefined
                    ELSE Def(SeedRule(call.args, 0))

-----------------------------------------------------------------------------
(* The errors thrown (part_000 82-86, 300-326, 339-343, 1934-1950).  An    *)
(* error is the properties the throw statement gives it: the name of its   *)
(* constructor and its message; at tells the statement that threw it.      *)

Raised(name, message, at) ==
    [thrown |-> TRUE, error |-> [name |-> name, message |-> message], at |-> at,
     value |-> Undefined]

Returned(value) ==
    [thrown |-> FALSE, error |-> [name |-> "", message |-> ""], at |-> "", value |-> Def(value)]

\* lines 82-86: testRange(true, errorMessage)
testRange_error(errorMessage, at) == Raised("RangeError", errorMessage, at)

\* lines 339-343: n(fn, 1) for fn not a function
n_not_function == testRange_error("Chance: The first argument must be a function.", "fn")

\* lines 300-326: unique(fn, num) for fn a function that returns result on every
\* call, from the state u of the call on
RECURSIVE unique_same(_, _)
unique_same(u, result) ==
    IF u.pc = "loop" THEN unique_same(unique_turn(u, result), result)
    ELSE IF u.pc = "returned" THEN Returned(u.arr)
    ELSE IF ~u.fnIsFunction
         THEN testRange_error("Chance: The first argument must be a function.", "fn")
    ELSE Raised("RangeError", "Chance: num is likely too large for sample set",
                "MAX_DUPLICATES")

\* thrown.toLowerCase(), thrown a sequence of characters
toLowerCase(str) ==
    [i \in 1..Len(str) |->
        IF \E j \in 1..26 : CHARS_UPPER[j] = str[i]
        THEN CHARS_LOWER[CHOOSE j \in 1..26 : CHARS_UPPER[j] = str[i]]
        ELSE str[i]]

\* str.split("d") from character i on, bits the pieces closed and cur the open one
RECURSIVE split_d(_, _, _, _)
split_d(str, i, bits, cur) ==
    IF i > Len(str) THEN Append(bits, cur)
    ELSE IF str[i] = "d" THEN split_d(str, i + 1, Append(bits, cur), <<>>)
    ELSE split_d(str, i + 1, bits, Append(cur, str[i]))

\* parseInt(str, 10) for a string of digits and letters, from character i on with
\* the digits read so far worth acc; NaN is Undefined
RECURSIVE parseInt(_, _, _)
parseInt(str, i, acc) ==
    IF i <= Len(str) /\ \E j \in 1..10 : NUMBERS[j] = str[i]
    THEN parseInt(str, i + 1,
                  Def((IF acc = Undefined THEN 0 ELSE 10 * acc[1])
                      + (CHOOSE j \in 1..10 : NUMBERS[j] = str[i]) - 1))
    ELSE acc

\* !parseInt(str, 10)
NotParsed(str) == parseInt(str, 1, Undefined) \in {Undefined, Def(0)}

\* lines 1945-1947: the rolls i, i - 1, .. 1, the draws counted from `at`
RECURSIVE rpg_rolls(_, _, _, _, _)
rpg_rolls(i, max, rolls, st, at) ==
    IF i <= 0 THEN rolls
    ELSE rpg_rolls(i - 1, max,
                   [rolls EXCEPT ![i] = DToInt(natural(MinMax(1, max), DrawAt(st, at)).value[1])],
                   st, at + 1)

RECURSIVE SumOf(_, _)
SumOf(rolls, i) == IF i > Len(rolls) THEN 0 ELSE rolls[i] + SumOf(rolls, i + 1)

\* lines 1934-1950: rpg(thrown, {sum: sum}); thrown is Undefined when left out
rpg(thrown, sum, st) ==
    LET Rolled(rolls) == Returned(IF sum THEN <<SumOf(rolls, 1)>> ELSE rolls)
        Split(bits) ==
            IF Len(bits) # 2 \/ NotParsed(bits[1]) \/ NotParsed(bits[2])
            THEN Raised("Error", "Invalid format provided. Please provide #d# ...", "bits")
            ELSE Rolled(rpg_rolls(parseInt(bits[1], 1, Undefined)[1],
                                  parseInt(bits[2], 1, Undefined)[1],
                                  [i \in 1..parseInt(bits[1], 1, Undefined)[1] |-> 0], st, 0))
    IN  IF thrown = Undefined \/ thrown = Def(<<>>)
        THEN Raised("RangeError", "A type of die roll must be included", "thrown")
        ELSE Split(split_d(toLowerCase(thrown[1]), 1, <<>>, <<>>))

\* the dice strings tried
Dice ==
    {Undefined, Def(<<>>), Def(<<"2", "d", "6">>), Def(<<"1", "D", "4">>),
     Def(<<"d", "6">>), Def(<<"2", "d">>), Def(<<"2", "x", "6">>),
     Def(<<"1", "d", "2", "d", "3">>), Def(<<"0", "d", "6">>), Def(<<"3", "d", "0">>)}

\* the calls tried: n and unique with a function or not, unique for num values
\* of a function that returns one value, rpg, and integer({min: 2, max: max})
ErrorCalls ==
    [fn : {"n", "unique"}, isFunction : BOOLEAN, num : 1..MaxNum, dice : {Undefined},
     max : {3}]
    \cup [fn : {"rpg"}, isFunction : {FALSE, TRUE}, num : {1}, dice : Dice, max : {3}]
    \cup [fn : {"integer"}, isFunction : {TRUE}, num : {1}, dice : {Undefined}, max : 1..3]

\* the outcome of the call c on the stream of draws st; isFunction is the sum
\* option of rpg
Attempt(c, st) ==
    IF c.fn = "n"
    THEN IF c.isFunction
         THEN Returned(n(TRUE, "integer", Def(c.num), Def(MinMax(0, 9)), st, 0).value[1])
         ELSE n_not_function
    ELSE IF c.fn = "unique"
         THEN unique_same(unique_enter(c.isFunction, c.num, Undefined), 1)
    ELSE IF c.fn = "rpg" THEN rpg(c.dice, c.isFunction, st)
    ELSE LET Tested(x) ==
                 IF x.thrown = "none" THEN Returned(x.value[1])
                 ELSE testRange_error("Chance: Min cannot be greater than Max.", "range")
         IN  Tested(integer(MinMax(2, c.max), DrawAt(st, 0)))

\* the caller makes call i of its two calls and catches what it throws
Catch(i) ==
    /\ call.pc = "errors" /\ call.outs[i] = Undefined
    /\ \E a \in ArrayDraws :
           call' = [call EXCEPT !.outs[i] = Def(Attempt(call.calls[i], <<a, <<0, 0>> >>))]
    /\ UNCHANGED <<mtVars, samp, uq, arrVars>>

InitErrors ==
    /\ IdleOthers /\ arrs = <<>>
    /\ \E c1 \in ErrorCalls, c2 \in ErrorCalls :
           call = [pc |-> "errors", calls |-> <<c1, c2>>, outs |-> <<Undefined, Undefined>>]

NextErrors == \E i \in 1..2 : Catch(i)

SpecErrors == InitErrors /\ [][NextErrors]_vars

\* the kind the statement that threw is said to raise
KindSaid(at) ==
    IF at \in {"fn", "bits"} THEN "invalid argument"
    ELSE IF at = "MAX_DUPLICATES" THEN "exhaustion"
    ELSE IF at = "range" THEN "range error"
    ELSE "any"

\* C17: errors are of three kinds a caller can tell apart: a non-function given
\* to n or unique and a malformed dice string raise the invalid-argument kind,
\* unique running out of attempts raises the exhaustion kind, which carries the
\* attempted count, and option range violations raise the range-error kind.
C17_ThreeErrorKinds ==
    /\ \A i \in 1..2 :
           (/\ call.outs[i] # Undefined
            /\ call.outs[i][1].at = "MAX_DUPLICATES") =>
               "count" \in DOMAIN call.outs[i][1].error
    /\ (/\ call.outs[1] # Undefined /\ call.outs[2] # Undefined
        /\ call.outs[1][1].thrown /\ call.outs[2][1].thrown
        /\ "any" \notin {KindSaid(call.outs[1][1].at), KindSaid(call.outs[2][1].at)}) =>
           (KindSaid(call.outs[1][1].at) = KindSaid(call.outs[2][1].at)
              <=> call.outs[1][1].error.name = call.outs[2][1].error.name)

-----------------------------------------------------------------------------
(* The draws of one twister (part_000 4613-4647, 4661-4664): genrand_int32 *)
(* and random, called one after the other on the object mts[1].            *)

\* the seeds tried: none (the entropy seeds it), 0, 42 and -3
Seeds == {Undefined, Def(DZero), Def(DInt(42)), Def(DInt(-3))}

\* the draws of a twister are followed up to MaxDrawn
MaxDrawn == 626

\* 4294967296
TwoTo32 == Num(1, BShl(BOne, 64))

\* a draw: the word genrand_int32 returns and the Number random returns for it;
\* mti is the cursor the call found, regenerated tells that it left another
\* state array than it found
Draw ==
    /\ call.pc = "drawing" /\ call.drawn < MaxDrawn
    /\ \E g \in {genrand_int32(mts[1])} : \E r \in {mt_random(mts[1])} :
           /\ mts' = <<r.obj>>
           /\ call' = [call EXCEPT !.drawn = call.drawn + 1, !.y = g.y, !.r = r.r,
                                   !.mti = mts[1].mti,
                                   !.regenerated = r.obj.mt # mts[1].mt,
                                   !.regenerations =
                                       call.regenerations
                                       + (IF r.obj.mt # mts[1].mt THEN 1 ELSE 0)]
    /\ UNCHANGED <<chance, script, outs, solo, samp, uq, arrVars>>

InitDraw ==
    /\ IdleSampling /\ IdleUnique /\ IdleArrays
    /\ chance = <<>> /\ script = <<>> /\ outs = <<>> /\ solo = <<>>
    /\ \E seed \in Seeds :
           /\ mts = <<MersenneTwister(seed, Entropy1)>>
           /\ call = [pc |-> "drawing", seed |-> seed, drawn |-> 0, y |-> <<0, 0>>,
                      r |-> DZero, mti |-> 0, regenerated |-> FALSE,
                      regenerations |-> 0]

NextDraw == Draw

SpecDraw == InitDraw /\ [][NextDraw]_vars

\* C18: after any seed and any number of draws the raw draw is an integer in
\* [0, 2^32) and the float draw is raw / 2^32, in [0, 1); the state is
\* regenerated and the cursor reset exactly when the cursor has reached 624,
\* once per 624 draws.
C18_DrawRangeAndRegeneration ==
    (call.pc = "drawing" /\ call.drawn > 0) =>
        /\ call.y[1] \in 0..(Half - 1) /\ call.y[2] \in 0..(Half - 1)
        /\ DMul(call.r, TwoTo32) = DWord(call.y)
        /\ DLe(DZero, call.r) /\ DLt(call.r, DOne)
        /\ call.regenerated <=> call.mti = N
        /\ mts[1].mti = (IF call.regenerated THEN 0 ELSE call.mti) + 1
        /\ call.regenerated <=> (call.drawn - 1) % N = 0
        /\ call.regenerations = ((call.drawn - 1) \div N) + 1

\* the draw after 624 draws has regenerated the state a second time
C18_Witness ==
    /\ call.pc = "drawing" /\ call.drawn = N + 1
    /\ call.regenerated /\ call.regenerations = 2
    /\ mts[1].mti = 1

-----------------------------------------------------------------------------
(* floating (part_000 188-213).  Its options are fixed, precision, min and *)
(* max.                                                                    *)

\* a \div 10^f for a natural a, and whether the division left a remainder
RECURSIVE BDivPow10(_, _, _)
BDivPow10(a, f, sticky) ==
    IF f = 0 THEN [q |-> a, sticky |-> sticky]
    ELSE LET Next(d) == BDivPow10(BNorm(d.q), f - 1, sticky \/ d.r # 0)
         IN  Next(BDivMod10(a, Len(a), 0))

\* x / Math.pow(10, f) for a Number x of at least 2^21 * 10^f: the quotient to
\* 16 more bits, and one more that tells of a remainder, rounded to 53 bits
DDivPow10(x, f) ==
    LET Sticky(d) == BAdd(BShl(d.q, 1), IF d.sticky THEN BOne ELSE <<>>)
    IN  Num(x.s, BShr(RoundD(Sticky(BDivPow10(BShl(x.m, 16), f, FALSE))), 17))

\* an option that is given and is not 0 (a Number that && lets through)
IsTruthy(v) == v # Undefined /\ v[1] # DZero

FloatingOptions(fixed, precision, min, max) ==
    [fixed |-> fixed, precision |-> precision, min |-> min, max |-> max]

\* lines 188-213: floating(options) on the draw r.  The Number returned is
\* parseFloat((num / fixed).toFixed(options.fixed)); the value kept is the num
\* drawn and the options.fixed it is scaled by
floating(options, r) ==
    LET Drawn(o, f, i) ==
            IF i.thrown # "none" THEN Yield("RangeError", Undefined, Def(o), 0)
            ELSE Yield("none", Def([num |-> i.value[1], fixed |-> f]), Def(o), 1)
        Filled(o, f, fixed) ==
            Drawn(o, f, integer([NoOptions EXCEPT !.min = Def(DMul(o.min[1], fixed)),
                                                  !.max = Def(DMul(o.max[1], fixed))], r))
        Scaled(o, f, fixed, max) ==
            IF \/ (IsTruthy(o.min) /\ IsTruthy(o.fixed) /\ DLt(o.min[1], DNeg(max)))
               \/ (IsTruthy(o.max) /\ IsTruthy(o.fixed) /\ DGt(o.max[1], max))
            THEN Yield("RangeError", Undefined, Def(o), 0)
            ELSE Filled(initOptions(o, [min |-> DNeg(max), max |-> max]), f, fixed)
        Fixed(o, f) == Scaled(o, f, DInt(10 ^ f), DDivPow10(MAX_INT, f))
        Defaulted(o) ==
            IF IsTruthy(o.fixed) /\ IsTruthy(o.precision)
            THEN Yield("RangeError", Undefined, Def(o), 0)
            ELSE Fixed(o, DToInt(o.fixed[1]))
    IN  Defaulted(initOptions(options, [fixed |-> DInt(4)]))

\* fixed is left out or 0 .. MaxFixed
MaxFixed == 2

\* the bounds tried: none, 0, 1, -2 and plus and minus 2^53
FloatingBounds ==
    {Undefined, Def(DZero), Def(DOne), Def(DInt(-2)), Def(MAX_INT), Def(MIN_INT)}

CallFloating ==
    /\ call.pc = "called" /\ call.fn = "floating"
    /\ \E res \in {floating(call.options, DFraction(call.k))} :
           call' = [call EXCEPT !.pc = "done", !.thrown = res.thrown, !.value = res.value]
    /\ UNCHANGED <<mtVars, samp, uq, arrVars>>

InitFloating ==
    /\ IdleOthers /\ arrs = <<>>
    /\ \E fixed \in {Undefined} \cup {Def(DInt(f)) : f \in 0..MaxFixed},
          precision \in {Undefined, Def(DZero), Def(DInt(3))},
          min \in FloatingBounds, max \in FloatingBounds,
          k \in {<<0, 0>>, <<32768, 0>>, <<65535, 65535>>} :
           call = [pc |-> "called", fn |-> "floating",
                   options |-> FloatingOptions(fixed, precision, min, max), k |-> k,
                   thrown |-> "none", value |-> Undefined]

NextFloating == CallFloating

SpecFloating == InitFloating /\ [][NextFloating]_vars

\* the bound, scaled by 10^fixed (10^4 when fixed is left out), is beyond
\* plus or minus 2^53
Overflows(bound, fixed) ==
    /\ bound # Undefined
    /\ BCmp(BMul(bound[1].m,
                 DInt(10 ^ (IF fixed = Undefined THEN 4 ELSE DToInt(fixed[1]))).m),
            BShl(MAX_INT.m, 32)) > 0

\* C20: floating raises a range error if and only if the caller gave both fixed
\* and precision (whatever the value of fixed, 0 included) or a bound overflows
\* the safe-integer range once scaled by 10^fixed; precision alone, or fixed
\* alone, does not make it fail.
C20_FloatingRangeErrors ==
    (call.pc = "done" /\ call.fn = "floating") =>
        (call.thrown = "RangeError" <=>
            \/ call.options.fixed # Undefined /\ call.options.precision # Undefined
            \/ Overflows(call.options.min, call.options.fixed)
            \/ Overflows(call.options.max, call.options.fixed))

-----------------------------------------------------------------------------
(* hour, minute and second (part_000 1539-1565, 1582-1584).  Their options *)
(* are min, max and twentyfour; options is Undefined when the caller       *)
(* passes none.                                                            *)

ClockOptions(min, max, twentyfour) ==
    [min |-> min, max |-> max, twentyfour |-> twentyfour]

\* this.natural({min: o.min, max: o.max}) on the draw r, as what a clock function
\* returns for the options object o it was given or made
natural_of(o, r) ==
    LET Drawn(x) == Yield(x.thrown, x.value, Def(o), 1)
    IN  Drawn(natural([NoOptions EXCEPT !.min = o.min, !.max = o.max], r))

\* lines 1539-1551
hour(options, r) ==
    LET flag == options # Undefined /\ options[1].twentyfour = Def(TRUE)
        Tested(o) ==
            IF \/ DLt(o.min[1], DZero)
               \/ (flag /\ DGt(o.max[1], DInt(23)))
               \/ (~flag /\ DGt(o.max[1], DInt(12)))
               \/ DGt(o.min[1], o.max[1])
            THEN Yield("RangeError", Undefined, Def(o), 0)
            ELSE natural_of(o, r)
    IN  Tested(initOptions(IF options = Undefined
                           THEN ClockOptions(Undefined, Undefined, Undefined)
                           ELSE options[1],
                           [min |-> DInt(IF flag THEN 0 ELSE 1),
                            max |-> DInt(IF flag THEN 23 ELSE 12)]))

\* lines 1557-1565: the function assigned to minute (and, at first, to second)
minute(options, r) ==
    LET Tested(o) ==
            IF \/ DLt(o.min[1], DZero)
               \/ DGt(o.max[1], DInt(59))
               \/ DGt(o.min[1], o.max[1])
            THEN Yield("RangeError", Undefined, Def(o), 0)
            ELSE natural_of(o, r)
    IN  Tested(initOptions(IF options = Undefined
                           THEN ClockOptions(Undefined, Undefined, Undefined)
                           ELSE options[1],
                           [min |-> DZero, max |-> DInt(59)]))

\* lines 1582-1584: the function assigned to second after that one; it has no
\* parameter, so the options passed are left as they are
second(options, r) ==
    LET Drawn(x) == Yield(x.thrown, x.value, options, 1)
    IN  Drawn(natural([NoOptions EXCEPT !.max = Def(DInt(59))], r))

\* the bounds tried are -1 .. MaxClock, around 12, around 23 and around 59
MaxClock == 1

ClockBounds ==
    {Undefined} \cup {Def(DInt(i)) : i \in (-1..MaxClock) \cup {11, 12, 13, 23, 24, 59, 60}}

CallHour ==
    /\ call.pc = "called" /\ call.fn = "hour"
    /\ \E res \in {hour(call.options, DFraction(call.k))} :
           call' = [call EXCEPT !.pc = "done", !.thrown = res.thrown,
                                !.value = res.value, !.left = res.options]
    /\ UNCHANGED <<mtVars, samp, uq, arrVars>>

CallMinute ==
    /\ call.pc = "called" /\ call.fn = "minute"
    /\ \E res \in {minute(call.options, DFraction(call.k))} :
           call' = [call EXCEPT !.pc = "done", !.thrown = res.thrown,
                                !.value = res.value, !.left = res.options]
    /\ UNCHANGED <<mtVars, samp, uq, arrVars>>

CallSecond ==
    /\ call.pc = "called" /\ call.fn = "second"
    /\ \E res \in {second(call.options, DFraction(call.k))} :
           call' = [call EXCEPT !.pc = "done", !.thrown = res.thrown,
                                !.value = res.value, !.left = res.options]
    /\ UNCHANGED <<mtVars, samp, uq, arrVars>>

InitClock ==
    /\ IdleOthers /\ arrs = <<>>
    /\ \E fn \in {"hour", "minute", "second"}, k \in {<<0, 0>>, <<32768, 0>>, <<65535, 65535>>},
          options \in {Undefined} \cup
                      {Def(ClockOptions(min, max, twentyfour)) :
                          min \in ClockBounds, max \in ClockBounds,
                          twentyfour \in {Undefined, Def(FALSE), Def(TRUE)}} :
           /\ (fn # "hour" /\ options # Undefined) => options[1].twentyfour = Undefined
           /\ call = [pc |-> "called", fn |-> fn, options |-> options, k |-> k,
                      thrown |-> "none", value |-> Undefined, left |-> Undefined]

NextClock == CallHour \/ CallMinute \/ CallSecond

SpecClock == InitClock /\ [][NextClock]_vars

\* the option key of the call, or the default d when it or the options were left out
GivenOf(options, key, d) ==
    IF options = Undefined \/ options[1][key] = Undefined THEN d ELSE options[1][key][1]

\* C21: minute and second return an integer in [min, max] within [0, 59], and
\* raise a range error when min < 0, max > 59 or min > max.
C21_MinuteSecondBounds ==
    (call.pc = "done" /\ call.fn \in {"minute", "second"}) =>
        LET lo == GivenOf(call.options, "min", DZero)
            hi == GivenOf(call.options, "max", DInt(59))
        IN  IF DLt(lo, DZero) \/ DGt(hi, DInt(59)) \/ DGt(lo, hi)
            THEN call.thrown = "RangeError" /\ call.value = Undefined
            ELSE /\ call.thrown = "none"
                 /\ DIsInteger(call.value[1])
                 /\ DLe(lo, call.value[1]) /\ DLe(call.value[1], hi)

\* C22: hour returns an integer in [1, 12] when twentyfour is not set and in
\* [0, 23] when it is, for every min and max it accepts, and raises a range
\* error when min < 0, when max > 12 (not set) or 23 (set), or when min > max.
C22_HourBounds ==
    (call.pc = "done" /\ call.fn = "hour") =>
        LET flag == GivenOf(call.options, "twentyfour", FALSE)
            lo == GivenOf(call.options, "min", DInt(IF flag THEN 0 ELSE 1))
            hi == GivenOf(call.options, "max", DInt(IF flag THEN 23 ELSE 12))
        IN  IF DLt(lo, DZero) \/ DGt(hi, DInt(IF flag THEN 23 ELSE 12)) \/ DGt(lo, hi)
            THEN call.thrown = "RangeError" /\ call.value = Undefined
            ELSE /\ call.thrown = "none"
                 /\ DIsInteger(call.value[1])
                 /\ DLe(DInt(IF flag THEN 0 ELSE 1), call.value[1])
                 /\ DLe(call.value[1], DInt(IF flag THEN 23 ELSE 12))

-----------------------------------------------------------------------------
(* exp, exp_month, exp_year and year (part_000 1600-1608, 1726-1766).  The *)
(* clock is a count t of months: every new Date() of the call reads it,    *)
(* and it may move on between two reads.                                   *)

getFullYear(t) == t \div 12

getMonth(t) == t % 12

\* lines 1600-1608: year({min: min, max: max}) on the draw r, before toString()
year(min, max, r) == DToInt(natural(MinMax(min, max), r).value[1])

\* lines 1761-1766: exp_year() when its two new Date() read t1 and t2
exp_year(t1, t2, r) ==
    year(IF getMonth(t1) + 1 = 12 THEN getFullYear(t2) + 1 ELSE getFullYear(t2),
         getFullYear(t2) + 10, r)

\* the clock moves on by at most MaxTicks months during a call
MaxTicks == 1

\* the year the calls are made in
ThisYear == 2026

\* lines 1726-1737 and 1743-1748: exp(options) up to the first month drawn; the
\* clock is read in exp_year (twice), in exp and in exp_month
Exp ==
    /\ call.pc = "called" /\ call.fn = "exp"
    /\ \E k \in ArrayDraws :
       \E t1 \in call.now..(call.now + MaxTicks) : \E t2 \in t1..(call.now + MaxTicks) :
       \E t3 \in t2..(call.now + MaxTicks) : \E t4 \in t3..(call.now + MaxTicks) :
       \E y \in {exp_year(t1, t2, DFraction(k))} :
           call' = [call EXCEPT !.pc = "exp_month", !.year = y,
                                !.future = (y = getFullYear(t3)),
                                !.curMonth = getMonth(t4) + 1,
                                !.now = t4, !.drawn = 1]
    /\ UNCHANGED <<mtVars, samp, uq, arrVars>>

\* lines 1749-1758 and 1739: a turn of the do-while of exp_month, or its else
\* branch, and the return of exp when the month is settled
ExpMonthTurn ==
    /\ call.pc = "exp_month" /\ call.drawn < MaxDraws
    /\ \E k \in ArrayDraws : \E month_int \in {month_numeric(k)} :
           call' = IF call.future /\ call.curMonth # 12 /\ month_int <= call.curMonth
                   THEN [call EXCEPT !.drawn = call.drawn + 1]
                   ELSE [call EXCEPT !.pc = "done", !.drawn = call.drawn + 1,
                                     !.month = month_int]
    /\ UNCHANGED <<mtVars, samp, uq, arrVars>>

InitExp ==
    /\ IdleOthers /\ arrs = <<>>
    /\ \E m \in 0..11 :
           call = [pc |-> "called", fn |-> "exp", start |-> (ThisYear * 12) + m,
                   now |-> (ThisYear * 12) + m, year |-> 0, month |-> 0,
                   future |-> FALSE, curMonth |-> 0, drawn |-> 0]

NextExp == Exp \/ ExpMonthTurn

SpecExp == InitExp /\ [][NextExp]_vars

\* C23: exp() returns a year >= the current year and, when the two are equal, a
\* month after the current month (so in December a later year), the current
\* month and year being those of the clock at the call's last reading of it.
C23_ExpInFuture ==
    (call.pc = "done" /\ call.fn = "exp") =>
        (call.year * 12) + (call.month - 1) > call.now

-----------------------------------------------------------------------------
(* checkDigit of mrz (part_000 709-731), on a string as the sequence of    *)
(* its characters.                                                         *)

\* line 711: "<ABCDEFGHIJKLMNOPQRSTUVWXYXZ".split('')
alpha ==
    << "<", "A", "B", "C", "D", "E", "F", "G", "H", "I", "J", "K", "L", "M", "N",
       "O", "P", "Q", "R", "S", "T", "U", "V", "W", "X", "Y", "X", "Z" >>

multipliers == <<7, 3, 1>>

\* arr.indexOf(x) for an x in arr, else -1
indexOf(arr, x) ==
    IF \E i \in 1..Len(arr) : arr[i] = x
    THEN (CHOOSE i \in 1..Len(arr) : arr[i] = x /\ \A j \in 1..(i - 1) : arr[j] # x) - 1
    ELSE -1

\* lines 719-729: the forEach from index idx on (a digit where indexOf finds
\* nothing)
RECURSIVE checkDigit_loop(_, _, _)
checkDigit_loop(input, idx, runningTotal) ==
    IF idx >= Len(input) THEN runningTotal
    ELSE LET pos == indexOf(alpha, input[idx + 1])
             valued == IF pos # -1 THEN (IF pos = 0 THEN 0 ELSE pos + 9)
                          ELSE parseInt(<<input[idx + 1]>>, 1, Undefined)[1]
         IN  checkDigit_loop(input, idx + 1,
                             runningTotal + (valued * multipliers[(idx % 3) + 1]))

\* lines 710-731
checkDigit(input) == checkDigit_loop(input, 0, 0) % 10

\* the strings tried have up to MaxMrz characters of MrzChars
MaxMrz == 3

MrzChars == {"0", "1", "9", "<", "A", "B", "X", "Y", "Z"}

CheckDigit ==
    /\ call.pc = "called" /\ call.fn = "checkDigit"
    /\ call' = [call EXCEPT !.pc = "done", !.value = Def(checkDigit(call.input))]
    /\ UNCHANGED <<mtVars, samp, uq, arrVars>>

InitMrz ==
    /\ IdleOthers /\ arrs = <<>>
    /\ \E input \in SeqsUpTo(MrzChars, MaxMrz) :
           call = [pc |-> "called", fn |-> "checkDigit", input |-> input,
                   value |-> Undefined]

NextMrz == CheckDigit

SpecMrz == InitMrz /\ [][NextMrz]_vars

\* the published value of a character: its digit, 0 for '<', 10..35 for A..Z
MrzValue(c) ==
    IF c = "<" THEN 0
    ELSE IF indexOf(NUMBERS, c) # -1 THEN indexOf(NUMBERS, c)
    ELSE indexOf(CHARS_UPPER, c) + 10

RECURSIVE MrzSum(_, _)
MrzSum(input, i) ==
    IF i > Len(input) THEN 0
    ELSE (MrzValue(input[i]) * <<7, 3, 1>>[((i - 1) % 3) + 1]) + MrzSum(input, i + 1)

\* C24: the MRZ check digit of a string over digits, '<' and A-Z is the sum,
\* mod 10, of the characters' values (the digit, 0 for '<', 10..35 for A..Z)
\* times the repeating weights 7, 3, 1.
C24_MrzCheckDigit ==
    (call.pc = "done" /\ call.fn = "checkDigit") =>
        call.value = Def(MrzSum(call.input, 1) % 10)

-----------------------------------------------------------------------------
(* The options page (src/js/options/options.js): the extracted-rule        *)
(* notice.  Storage holds the extracted rule or nothing; the page state is  *)
(* the notice, the click handler bound with the rule it captured, the       *)
(* current tab, the Rules.load promises in flight and the arrays their      *)
(* callbacks pushed onto.                                                   *)

MaxTabRules == 1
MaxClicks == 2
TabIds == 1..2
ExtractedRules == {"a", "b"}

\* lines 17-18: the rule created for the array Rules.load resolved with
appendRule(prettyRule, tabId, arrayOfRules) ==
    Append(arrayOfRules, [code |-> prettyRule, tab |-> tabId,
                          index |-> Len(arrayOfRules) + 1])

\* lines 22-36: the Storage.load(extractedRule) callback
ExtractedLoaded ==
    /\ call.pc = "loading" /\ call.fn = "options"
    /\ call' = IF call.extracted # Undefined
               THEN [call EXCEPT !.pc = "ready", !.notice = TRUE,
                                 !.bound = call.extracted]
               ELSE [call EXCEPT !.pc = "ready"]
    /\ UNCHANGED <<mtVars, samp, uq, arrVars>>

\* lines 29-34 and 14-15: the click on .cmd-append-extracted calls appendRule,
\* which starts Rules.load(currentTabId())
ClickAppend ==
    /\ call.pc = "ready" /\ call.fn = "options"
    /\ call.bound # Undefined /\ call.notice
    /\ call.clicks < MaxClicks
    /\ call' = [call EXCEPT !.clicks = @ + 1,
                            !.pending = Append(@, call.tab)]
    /\ UNCHANGED <<mtVars, samp, uq, arrVars>>

\* lines 15-19: the Rules.load callback pushes the rule onto the array it was
\* given and returns; responseCallback is not called
RulesLoaded ==
    /\ call.fn = "options" /\ Len(call.pending) > 0
    /\ call' = [call EXCEPT
           !.pending = Tail(@),
           !.pushed = Append(@, appendRule(call.bound[1], call.tab,
                                           [i \in 1..call.stored[Head(call.pending)] |->
                                               [code |-> "stored", tab |-> Head(call.pending),
                                                index |-> i]]))]
    /\ UNCHANGED <<mtVars, samp, uq, arrVars>>

\* lines 212-215: the click on the notice's close command
ClickClose ==
    /\ call.pc = "ready" /\ call.fn = "options" /\ call.notice
    /\ call' = [call EXCEPT !.extracted = Undefined, !.notice = FALSE]
    /\ UNCHANGED <<mtVars, samp, uq, arrVars>>

\* the user selects another tab
SwitchTab ==
    /\ call.pc = "ready" /\ call.fn = "options"
    /\ \E t \in TabIds \ {call.tab} : call' = [call EXCEPT !.tab = t]
    /\ UNCHANGED <<mtVars, samp, uq, arrVars>>

InitOptions ==
    /\ IdleOthers /\ arrs = <<>>
    /\ \E e \in {Undefined} \cup {Def(r) : r \in ExtractedRules},
          t \in TabIds, st \in [TabIds -> 0..MaxTabRules] :
           call = [pc |-> "loading", fn |-> "options", extracted |-> e,
                   notice |-> FALSE, bound |-> Undefined, tab |-> t,
                   stored |-> st, pending |-> <<>>, pushed |-> <<>>,
                   clicks |-> 0]

NextOptions ==
    \/ ExtractedLoaded
    \/ ClickAppend
    \/ RulesLoaded
    \/ ClickClose
    \/ SwitchTab

\* the page's promise callbacks run once their promise is resolved; clicks are
\* the user's and need not happen
SpecOptions ==
    InitOptions /\ [][NextOptions]_vars
        /\ WF_vars(ExtractedLoaded) /\ WF_vars(RulesLoaded)

\* C25: after a click on the append-extracted command while an extracted rule
\* is present, eventually the extracted-present notice is hidden and the
\* extracted rule is deleted from storage.
C25_AppendHidesAndDeletes ==
    (call.fn = "options" /\ call.clicks > 0)
        ~> (~call.notice /\ call.extracted = Undefined)

-----------------------------------------------------------------------------
\* C26: a call that raises a range error for invalid options has consumed no
\* draw of the engine when it fails, so the next value drawn is the one that
\* would have been drawn without the failing call.
C26_ErrorsConsumeNoDraw ==
    (call.pc = "done" /\ call.fn \in {"string", "n"} /\ call.thrown = "RangeError")
        => call.drawn = 0

-----------------------------------------------------------------------------
\* C27: after string(options) and after n(character, count, options) every
\* key of the caller's options object holds the value the caller supplied and
\* no key has been added.
C27_OptionsUntouched ==
    (call.pc = "done" /\ call.fn \in {"string", "n"} /\ call.params # Undefined)
        => call.options = call.params

-----------------------------------------------------------------------------
(* set (part_000 4512-4518) and get on tables the caller supplies: data is  *)
(* a function from the names set so far to their tables.                    *)

\* lines 4384-4392 with the _target of line 4402: target after the loop
_copyObject_into(source, target) ==
    [key \in DOMAIN source \cup DOMAIN target |->
        IF key \in DOMAIN source /\ Truthy(source[key]) THEN source[key]
        ELSE IF key \in DOMAIN target THEN target[key] ELSE Missing]

\* lines 4512-4518: data after set(name, values); name is a string or a
\* mapping
set(d, name, values) ==
    IF "str" \in DOMAIN name
    THEN [key \in DOMAIN d \cup {name.str} |-> IF key = name.str THEN values ELSE d[key]]
    ELSE _copyObject_into(name.map, d)

TableNames == {"t", "u"}

\* entries a caller's table may hold
Entry == {StringOf("x"), StringOf(""), NumberOf(1), NumberOf(0), BoolOf(FALSE)}

\* the longest array and the most keys of a table set
MaxEntries == 1

\* the tables a caller sets: arrays, or objects with the keys a, b, ...
Tables(isArray) ==
    IF isArray
    THEN { ArrayOf(q) : q \in SeqsUpTo(Entry, MaxEntries) }
    ELSE { ObjectOf(o) : o \in UNION { [K -> Entry] :
               K \in { K \in SUBSET {"a", "b", "c"} : Cardinality(K) <= MaxEntries } } }

\* chance.set(name, values) with a string name
SetName ==
    /\ call.pc = "ready" /\ call.fn = "set"
    /\ \E name \in TableNames, isArray \in BOOLEAN : \E values \in Tables(isArray) :
           call' = [call EXCEPT !.pc = "set", !.before = call.data,
                                !.name = StringOf(name), !.values = Def(values),
                                !.data = set(call.data, StringOf(name), values)]
    /\ UNCHANGED <<mtVars, samp, uq, arrVars>>

\* chance.set(mapping)
SetMapping ==
    /\ call.pc = "ready" /\ call.fn = "set"
    /\ \E K \in SUBSET TableNames, isArray \in BOOLEAN : \E mapping \in [K -> Tables(isArray)] :
           call' = [call EXCEPT !.pc = "set", !.before = call.data,
                                !.name = [map |-> mapping], !.values = Undefined,
                                !.data = set(call.data, [map |-> mapping], Undefined)]
    /\ UNCHANGED <<mtVars, samp, uq, arrVars>>

\* chance.get(k) of a table that is there, after the set
GetTable ==
    /\ call.pc = "set" /\ call.fn = "set"
    /\ \E k \in DOMAIN call.data :
           call' = [call EXCEPT !.pc = "done", !.key = k,
                                !.value = Def(get(<<call.data[k]>>)[2])]
    /\ UNCHANGED <<mtVars, samp, uq, arrVars>>

InitSet ==
    /\ IdleOthers /\ arrs = <<>>
    /\ \E K \in SUBSET TableNames :
           call = [pc |-> "ready", fn |-> "set",
                   data |-> [k \in K |-> ArrayOf(<<StringOf("first")>>)],
                   before |-> <<>>, name |-> Missing, values |-> Undefined,
                   key |-> "", value |-> Undefined]

NextSet == SetName \/ SetMapping \/ GetTable

SpecSet == InitSet /\ [][NextSet]_vars

\* the content of two tables is equal, key for key or index for index
SameContent(x, y) ==
    /\ x.isArray = y.isArray
    /\ DOMAIN x.items = DOMAIN y.items
    /\ \A k \in DOMAIN x.items : x.items[k] = y.items[k]

\* C28: after set(name, value), get(name) returns content equal to value, key
\* for key and index for index, entries 0, false and "" included; after
\* set(mapping), get(k) equals mapping[k] for every key k of the mapping and
\* every other table is unchanged.
C28_SetGetRoundTrip ==
    /\ (call.fn = "set" /\ call.pc = "done" /\ "str" \in DOMAIN call.name
            /\ call.key = call.name.str)
           => SameContent(call.value[1], call.values[1])
    /\ (call.fn = "set" /\ call.pc = "done" /\ "map" \in DOMAIN call.name) =>
           /\ call.key \in DOMAIN call.name.map
                  => SameContent(call.value[1], call.name.map[call.key])
           /\ \A k \in DOMAIN call.before \ DOMAIN call.name.map :
                  /\ k \in DOMAIN call.data
                  /\ SameContent(call.data[k], call.before[k])

-----------------------------------------------------------------------------
(* weighted(arr, weights, true) called again and again on the same two     *)
(* arrays, until a call throws.                                             *)

\* one more call: it returns an element and trims, or throws
WeightedAgain ==
    /\ call.pc = "called" /\ call.fn = "weighted"
    /\ \E k \in ArrayDraws :
         \E r \in {weighted(arrs, 1, 2, Def(TRUE), DFraction(k))} :
           /\ arrs' = r.h
           /\ call' = IF r.thrown = "none"
                      THEN [call EXCEPT !.returned = Append(@, r.value[1])]
                      ELSE [call EXCEPT !.pc = "done", !.thrown = r.thrown]
    /\ UNCHANGED <<mtVars, samp, uq, shuf, wt>>

InitTrim ==
    /\ IdleOthers
    /\ \E len \in 0..MaxLen, w \in SeqsUpTo(WeightValues, MaxLen) :
           /\ arrs = <<Items(len), w>>
           /\ call = [pc |-> "called", fn |-> "weighted", before |-> <<Items(len), w>>,
                      returned |-> <<>>, thrown |-> "none"]

NextTrim == WeightedAgain

SpecTrim == InitTrim /\ [][NextTrim]_vars

\* the indices of weights whose weight is above 0
Positive(weights) == { i \in 1..Len(weights) : DGt(weights[i], DZero) }

\* the elements of a, in their order, at the indices from i on that are not in
\* drop
RECURSIVE Remaining(_, _, _)
Remaining(a, drop, i) ==
    IF i > Len(a) THEN <<>>
    ELSE IF i \in drop THEN Remaining(a, drop, i + 1)
    ELSE <<a[i]>> \o Remaining(a, drop, i + 1)

\* the calls so far returned distinct elements that started with a weight
\* above 0
ReturnedOnce ==
    /\ \A i, j \in 1..Len(call.returned) : i # j => call.returned[i] # call.returned[j]
    /\ \A i \in 1..Len(call.returned) :
           \E j \in Positive(call.before[2]) :
               j <= Len(call.before[1]) /\ call.before[1][j] = call.returned[i]

\* the call that threw was the first after every element that started with a
\* weight above 0 had been returned, and the others are still in the arrays
AllReturned ==
    /\ Len(call.returned) = Cardinality(Positive(call.before[2]))
    /\ arrs[1] = Remaining(call.before[1], Positive(call.before[2]), 1)
    /\ arrs[2] = Remaining(call.before[2], Positive(call.before[2]), 1)

\* C29 as stated, for any two arrays: the calls return each element that
\* started with a weight above 0 exactly once, then the next call raises a range
\* error, the elements of weight <= 0 never returned and still in arr.
C29_TrimReturnsEachOnce ==
    call.fn = "weighted" =>
        /\ ReturnedOnce
        /\ call.pc = "done" => (call.thrown = "RangeError" /\ AllReturned)

\* C29 for arr and weights of the same length; when the lengths differ the
\* first call raises the range error and both arrays stay as they were.
C29_TrimReturnsEachOnceOfEqualLength ==
    call.fn = "weighted" =>
        /\ ReturnedOnce
        /\ call.pc = "done" =>
               /\ call.thrown = "RangeError"
               /\ IF Len(call.before[1]) = Len(call.before[2])
                  THEN AllReturned
                  ELSE call.returned = <<>> /\ arrs = call.before

\* three elements of weights 2, 0 and 1: both positive ones were returned, the
\* later one first, and the third call threw with the middle element left
C29_Witness ==
    /\ call.fn = "weighted" /\ call.pc = "done"
    /\ call.before[2] = <<DInt(2), DZero, DInt(1)>>
    /\ call.returned = <<13, 11>>
    /\ arrs = <<<<12>>, <<DZero>>>>

-----------------------------------------------------------------------------
(* The options page: loadRules and saveRules (options.js 116-160, 179-198). *)
(* ruleJson is Undefined while it is null; by is the loadRules call whose    *)
(* callback set it (0: none), calls the loadRules calls made so far.         *)
(* loading and saving hold the promises in flight, in the order they were   *)
(* made; saved lists what Rules.save was called with.                       *)

RuleCodes == {"a", "b"}

\* lines 138-143: ruleJson after the Storage.load callback got ruleData
loadRules(ruleData) == IF ruleData = Undefined THEN Def("") ELSE ruleData

\* line 180 and lines 191-192: loadRules(currentTabId()) starts a Storage.load
ClickReload ==
    /\ call.pc = "page" /\ call.fn = "rules" /\ call.clicks < MaxClicks
    /\ call' = [call EXCEPT !.clicks = @ + 1, !.calls = @ + 1,
                            !.loading = Append(@, call.calls + 1)]
    /\ UNCHANGED <<mtVars, samp, uq, arrVars>>

\* lines 137-159: the callback of the oldest Storage.load in flight
StorageLoaded ==
    /\ call.fn = "rules" /\ Len(call.loading) > 0
    /\ call' = [call EXCEPT !.loading = Tail(@), !.by = Head(call.loading),
                            !.ruleJson = loadRules(call.stored)]
    /\ UNCHANGED <<mtVars, samp, uq, arrVars>>

\* lines 189-190 and 117-120: the click on save calls saveRules, which starts
\* Libs.loadLibs; what Libs.detectVendoredLibraries does with null is not in
\* this source: it returns, or throws and saveRules ends there
ClickSave ==
    /\ call.pc = "page" /\ call.fn = "rules" /\ call.clicks < MaxClicks
    /\ \E detected \in IF call.ruleJson = Undefined THEN BOOLEAN ELSE {TRUE} :
           call' = [call EXCEPT !.clicks = @ + 1,
                                !.saving = IF detected THEN Append(@, call.calls) ELSE @]
    /\ UNCHANGED <<mtVars, samp, uq, arrVars>>

\* lines 120-121: the callback of the oldest Libs.loadLibs in flight calls
\* Rules.save(ruleJson, tabId), which stores the code it was given
LibsLoaded ==
    /\ call.fn = "rules" /\ Len(call.saving) > 0
    /\ call' = [call EXCEPT
           !.saving = Tail(@),
           !.saved = Append(@, [code |-> call.ruleJson, by |-> call.by,
                                calls |-> call.calls]),
           !.stored = IF call.ruleJson = Undefined THEN @ ELSE call.ruleJson]
    /\ UNCHANGED <<mtVars, samp, uq, arrVars>>

\* another page of the extension stores other rules for the tab
OtherWrite ==
    /\ call.pc = "page" /\ call.fn = "rules" /\ call.clicks < MaxClicks
    /\ \E code \in RuleCodes \ Range(call.stored) :
           call' = [call EXCEPT !.clicks = @ + 1, !.stored = Def(code)]
    /\ UNCHANGED <<mtVars, samp, uq, arrVars>>

\* the page as its script has run: line 6 and the loadRules of line 180
InitRules ==
    /\ IdleOthers /\ arrs = <<>>
    /\ \E stored \in {Undefined} \cup {Def(code) : code \in RuleCodes} :
           call = [pc |-> "page", fn |-> "rules", stored |-> stored,
                   ruleJson |-> Undefined, by |-> 0, calls |-> 1,
                   loading |-> <<1>>, saving |-> <<>>, saved |-> <<>>,
                   clicks |-> 0]

NextRules ==
    \/ ClickReload
    \/ StorageLoaded
    \/ ClickSave
    \/ LibsLoaded
    \/ OtherWrite

SpecRules == InitRules /\ [][NextRules]_vars

\* C30: Rules.save is only ever called with code that a completed loadRules
\* put into ruleJson: never with the initial null, nor with a value loaded
\* before the most recent loadRules call.
C30_SaveOnlyLoaded ==
    call.fn = "rules" =>
        \A i \in 1..Len(call.saved) :
            /\ call.saved[i].code # Undefined
            /\ call.saved[i].by = call.saved[i].calls

=============================================================================
